---- MODULE Spec2Model ----
(***************************************************************************)
(* PDFree, src/utils/pdfUtils.ts and src/components/ToolModal.tsx.         *)
(*                                                                         *)
(* Spec: extractPDFImages.  SpecEntry: the tests of its Method 1 on one    *)
(* resource entry.  SpecRace: its Method 2 with the race of a resolution   *)
(* against its timer.  SpecCompress, SpecRotate, SpecRemove: the compress, *)
(* rotate and remove-pages tools, from the options of the modal to the     *)
(* document the page tool returns.  SpecSlicer: the pagination of          *)
(* renderHtmlToPageImages.  SpecSelect: the file choice, the loadPdfInfo   *)
(* effect and the page selection of the modal.  SpecProcess: the progress  *)
(* of a run of Process.                                                    *)
(*                                                                         *)
(* One run of extractPDFImages over one document.  Method 1 walks the      *)
(* XObject resources of every page with pdf-lib; Method 2 replays the      *)
(* operator list of every page with PDF.js when Method 1 emitted nothing.  *)
(* The document is the input; the answers of the two libraries that the    *)
(* code cannot decide (load failure, render failure, toBlob returning      *)
(* null, the 2000 ms race) are chosen by the environment at the step that  *)
(* asks for them.                                                          *)
(***************************************************************************)
EXTENDS Integers, Sequences, FiniteSets, TLC

VARIABLES
    doc,                  \* the document: a sequence of pages, a page is the sequence of its XObject resources
    pc,                   \* position of extractPDFImages
    pageIdx,              \* Method 1: pageIdx
    keyIdx,               \* Method 1: position in xObjects.keys() of the page; 0 while the page is not opened
    imageCount,           \* let imageCount
    extractedHashes,      \* const extractedHashes = new Set<string>()
    zip,                  \* the JSZip archive: a set of entries, one per file name
    canvas,               \* the canvas last drawn by a decode branch
    pageNum,              \* Method 2: pageNum
    ops,                  \* Method 2: the operator list of the fetched page
    opIdx,                \* Method 2: i + 1 of the code; 0 while no page is fetched
    processedImageNames,  \* Method 2: processedImageNames of the fetched page
    outcome,              \* what the caller of extractPDFImages gets
    log,                  \* bookkeeping: what the run did (never read by an action's guard)
    options,              \* ToolModal: const [options, setOptions]
    selectedPages,        \* ToolModal: const [selectedPages, setSelectedPages]
    file,                 \* the PDF handed to a page tool: the sequence of its pages
    call,                 \* the running call of a page tool: its arguments and locals
    result,               \* what that call gave its caller
    files,                \* ToolModal: const [files, setFiles]
    pageCount,            \* ToolModal: const [pageCount, setPageCount]
    pageOrder,            \* ToolModal: const [pageOrder, setPageOrder]
    loads,                \* the getPDFInfo calls of the loadPdfInfo effect that have not settled
    isProcessing,         \* ToolModal: const [isProcessing, setIsProcessing]
    isComplete,           \* ToolModal: const [isComplete, setIsComplete]
    progress,             \* ToolModal: const [progress, setProgress]
    resultBlob,           \* ToolModal: const [resultBlob, setResultBlob]
    error,                \* ToolModal: const [error, setError]
    progressIntervalRef,  \* ToolModal: progressIntervalRef.current
    mounted               \* whether the modal is mounted

\* the state of extractPDFImages
extractVars == <<doc, pc, pageIdx, keyIdx, imageCount, extractedHashes, zip, canvas,
                 pageNum, ops, opIdx, processedImageNames, outcome, log>>

\* the state of the modal around a tool: the chosen files and the progress of Process
modalVars == <<files, pageCount, pageOrder, loads, isProcessing, isComplete, progress,
               resultBlob, error, progressIntervalRef, mounted>>

\* the state of the tool modal and of the page tools it starts
toolVars == <<options, selectedPages, file, call, result, modalVars>>

vars == <<doc, pc, pageIdx, keyIdx, imageCount, extractedHashes, zip, canvas,
          pageNum, ops, opIdx, processedImageNames, outcome, log,
          options, selectedPages, file, call, result,
          files, pageCount, pageOrder, loads, isProcessing, isComplete, progress,
          resultBlob, error, progressIntervalRef, mounted>>

----------------------------------------------------------------------------
(* Bounds of the input family. *)

MaxPages == 2
MaxObjs == 2

----------------------------------------------------------------------------
(* Program constants. *)

SampleSize == 100
MinBlobSize == 100

----------------------------------------------------------------------------
(* Strings. *)

\* String.prototype.includes
Includes(s, t) ==
    \E i \in 1..(Len(s) - Len(t) + 1) : SubSeq(s, i, i + Len(t) - 1) = t

----------------------------------------------------------------------------
(* The raster objects a page can hold.  Each is what the two libraries     *)
(* report for one object of the file: the stream dictionary and bytes seen *)
(* by pdf-lib, and the paint operation and image data PDF.js produces for  *)
(* it.  Width and height 0 stand for an absent or zero entry (both are     *)
(* rejected by the same test); bpc 0 stands for an absent BitsPerComponent *)
(* (numberValue is falsy either way).  paint.fn is the operator PDF.js     *)
(* emits for the object, paint.cache where its image data is found after   *)
(* the render ("async": only through the callback form of objs.get),       *)
(* paint.shape whether that data is an ImageBitmap or a pixel buffer,      *)
(* paint.data the pixels, and pngSize the size of the PNG the browser      *)
(* encodes for them.  An empty filter stands for a stream dictionary       *)
(* without a Filter entry (filter?.toString() || '').                      *)

Objects ==
    [ RgbA |->
        [stream |-> TRUE, subtype |-> "/Image", width |-> 2, height |-> 1,
         colorSpace |-> "/DeviceRGB", bpc |-> 8, filter |-> "/FlateDecode",
         contents |-> <<120, 156, 99>>, decodes |-> TRUE,
         decoded |-> <<10, 20, 30, 40, 50, 60>>,
         paint |-> [fn |-> 85, cache |-> "objs", shape |-> "bitmap", w |-> 2, h |-> 1,
                    data |-> <<10, 20, 30, 255, 40, 50, 60, 255>>, typed |-> FALSE,
                    pngSize |-> 300]],
      GrayA |->
        [stream |-> TRUE, subtype |-> "/Image", width |-> 2, height |-> 2,
         colorSpace |-> "/DeviceGray", bpc |-> 8, filter |-> "[ /FlateDecode ]",
         contents |-> <<120, 156, 98, 1>>, decodes |-> TRUE,
         decoded |-> <<0, 85, 170, 255>>,
         paint |-> [fn |-> 85, cache |-> "objs", shape |-> "raw", w |-> 2, h |-> 2,
                    data |-> <<0, 0, 0, 85, 85, 85, 170, 170, 170, 255, 255, 255>>,
                    typed |-> TRUE, pngSize |-> 300]],
      Jpeg |->
        [stream |-> TRUE, subtype |-> "/Image", width |-> 2, height |-> 2,
         colorSpace |-> "/DeviceRGB", bpc |-> 8, filter |-> "/DCTDecode",
         contents |-> <<255, 216, 255, 224>>, decodes |-> FALSE,
         decoded |-> <<>>,
         paint |-> [fn |-> 85, cache |-> "commonObjs", shape |-> "bitmap", w |-> 2, h |-> 2,
                    data |-> <<1, 1, 1, 255, 2, 2, 2, 255, 3, 3, 3, 255, 4, 4, 4, 255>>,
                    typed |-> FALSE, pngSize |-> 300]],
      Fax |->
        [stream |-> TRUE, subtype |-> "/Image", width |-> 2, height |-> 2,
         colorSpace |-> "/DeviceGray", bpc |-> 1, filter |-> "/CCITTFaxDecode",
         contents |-> <<0, 1, 77>>, decodes |-> FALSE,
         decoded |-> <<>>,
         paint |-> [fn |-> 83, cache |-> "objs", shape |-> "raw", w |-> 2, h |-> 2,
                    data |-> <<0, 255, 255, 0>>, typed |-> TRUE, pngSize |-> 300]],
      Deep16 |->
        [stream |-> TRUE, subtype |-> "/Image", width |-> 2, height |-> 1,
         colorSpace |-> "/DeviceRGB", bpc |-> 16, filter |-> "/FlateDecode",
         contents |-> <<120, 156, 100>>, decodes |-> TRUE,
         decoded |-> <<1, 2, 3, 4, 5, 6, 7, 8, 9, 10, 11, 12>>,
         paint |-> [fn |-> 85, cache |-> "async", shape |-> "bitmap", w |-> 2, h |-> 1,
                    data |-> <<0, 1, 3, 255, 6, 8, 11, 255>>, typed |-> FALSE,
                    pngSize |-> 300]],
      Indexed |->
        [stream |-> TRUE, subtype |-> "/Image", width |-> 2, height |-> 2,
         colorSpace |-> "[ /Indexed /DeviceRGB 3 <000000ff000000ff000000ff> ]",
         bpc |-> 8, filter |-> "/FlateDecode",
         contents |-> <<120, 156, 101>>, decodes |-> TRUE,
         decoded |-> <<0, 1, 2, 3>>,
         paint |-> [fn |-> 85, cache |-> "objs", shape |-> "raw", w |-> 2, h |-> 2,
                    data |-> <<0, 0, 0, 255, 255, 0, 0, 255, 0, 255, 0, 255, 0, 0, 255, 255>>,
                    typed |-> TRUE, pngSize |-> 300]],
      Form |->
        [stream |-> TRUE, subtype |-> "/Form", width |-> 0, height |-> 0,
         colorSpace |-> "", bpc |-> 0, filter |-> "/FlateDecode",
         contents |-> <<120, 156, 102>>, decodes |-> TRUE,
         decoded |-> <<113, 32, 81>>,
         paint |-> [fn |-> 85, cache |-> "objs", shape |-> "raw", w |-> 2, h |-> 1,
                    data |-> <<9, 8, 7, 255, 6, 5, 4, 255>>, typed |-> TRUE,
                    pngSize |-> 300]],
      FormTiny |->
        [stream |-> TRUE, subtype |-> "/Form", width |-> 0, height |-> 0,
         colorSpace |-> "", bpc |-> 0, filter |-> "/FlateDecode",
         contents |-> <<120, 156, 103>>, decodes |-> TRUE,
         decoded |-> <<113, 81>>,
         paint |-> [fn |-> 85, cache |-> "objs", shape |-> "raw", w |-> 1, h |-> 1,
                    data |-> <<200, 200, 200, 255>>, typed |-> TRUE,
                    pngSize |-> 70]],
      Plain |->
        [stream |-> TRUE, subtype |-> "/Image", width |-> 1, height |-> 2,
         colorSpace |-> "/DeviceGray", bpc |-> 8, filter |-> "",
         contents |-> <<7, 9>>, decodes |-> TRUE,
         decoded |-> <<7, 9>>,
         paint |-> [fn |-> 85, cache |-> "objs", shape |-> "raw", w |-> 1, h |-> 2,
                    data |-> <<7, 7, 7, 255, 9, 9, 9, 255>>, typed |-> TRUE,
                    pngSize |-> 300]] ]

ObjectIds == DOMAIN Objects

----------------------------------------------------------------------------
(* Input documents: every document of at most MaxPages pages holding at    *)
(* most MaxObjs resource entries in all, and the three-page document of    *)
(* the end-to-end scenario.                                                *)

RECURSIVE SeqsOfLen(_, _)
SeqsOfLen(S, n) ==
    IF n = 0 THEN {<<>>}
    ELSE {Append(s, x) : s \in SeqsOfLen(S, n - 1), x \in S}

PagesUpTo(n) == UNION {SeqsOfLen(ObjectIds, m) : m \in 0..n}

RECURSIVE DocsOf(_, _)
DocsOf(p, budget) ==
    IF p = 0 THEN {<<>>}
    ELSE UNION { { <<pg>> \o rest : rest \in DocsOf(p - 1, budget - Len(pg)) }
                 : pg \in PagesUpTo(budget) }

EndToEndDoc == << <<"RgbA", "RgbA">>, <<"GrayA">>, <<"Form">> >>

Docs == UNION {DocsOf(p, MaxObjs) : p \in 1..MaxPages} \cup {EndToEndDoc}

----------------------------------------------------------------------------
(* The deduplication fingerprint of Method 1.                              *)

\* hash = ((hash << 5) - hash + byte) | 0 on 32-bit two's complement integers,
\* computed on 16-bit halves so that no intermediate value leaves 32 bits.
HashStep(hash, byte) ==
    LET hi    == hash \div 65536
        lo    == hash % 65536
        lo31  == lo * 31 + byte
        hi31  == (hi * 31 + (lo31 \div 65536)) % 65536
        hiS   == IF hi31 >= 32768 THEN hi31 - 65536 ELSE hi31
    IN  hiS * 65536 + (lo31 % 65536)

Min(a, b) == IF a < b THEN a ELSE b

RECURSIVE HashFrom(_, _, _, _)
HashFrom(bytes, i, sampleSize, hash) ==
    IF i < sampleSize THEN HashFrom(bytes, i + 1, sampleSize, HashStep(hash, bytes[i + 1]))
    ELSE hash

SampleHash(bytes) == HashFrom(bytes, 0, Min(SampleSize, Len(bytes)), 0)

\* `${w}x${h}_${hash}_${streamBytes.length}`: the literal prefix of the template
\* and the numbers it interpolates, in order.
WalkerHashKey(x) ==
    [ns |-> "", nums |-> <<x.width, x.height, SampleHash(x.contents), Len(x.contents)>>]

SeenNever(hashes, key) == FALSE
\* extractedHashes.has(hashKey)
Seen(hashes, key) == key \in hashes

----------------------------------------------------------------------------
(* The archive.                                                            *)

EntryNameCountDown(n, page, ext) == [n |-> 0 - n, page |-> page, ext |-> ext]
EntryNameNoCount(n, page, ext) == [n |-> 0, page |-> page, ext |-> ext]
\* `image_${imageCount}_page${page}.${ext}`
EntryName(n, page, ext) == [n |-> n, page |-> page, ext |-> ext]

\* zip.file(name, data): one entry per name, a later one replaces an earlier one
ZipFile(z, name, data) == {e \in z : e.name # name} \cup {[name |-> name, data |-> data]}

StreamData(bytes) == [fmt |-> "stream", w |-> 0, h |-> 0, bytes |-> bytes]
PngData(cv) == [fmt |-> "png", w |-> cv.w, h |-> cv.h, bytes |-> cv.rgba]

----------------------------------------------------------------------------
(* The stream decoder of Method 1.                                         *)

FilterClassAllJpg(filterStr) == "jpg"
\* the chain of tests on filterStr
FilterClass(filterStr) ==
    IF Includes(filterStr, "DCTDecode") \/ Includes(filterStr, "/DCT") THEN "jpg"
    ELSE IF Includes(filterStr, "FlateDecode") \/ Includes(filterStr, "/Flat")
            \/ filterStr = "" THEN "flate"
    ELSE "bin"

\* (bitsPerComponent as any)?.numberValue || 8
BpcOf(x) == IF x.bpc = 0 THEN 8 ELSE x.bpc

BitDepthAny(bpc) == TRUE
\* the negation of: if (bpc !== 8) continue
BitDepthSupported(bpc) == bpc = 8

\* the if / else if chain that picks the channel interpretation
ChannelLayout(len, pixelCount, colorSpaceStr) ==
    LET isRGB  == Includes(colorSpaceStr, "RGB")
        isGray == Includes(colorSpaceStr, "Gray") \/ Includes(colorSpaceStr, "Grey")
    IN  IF len = pixelCount * 3 \/ isRGB THEN "RGB"
        ELSE IF len = pixelCount \/ isGray THEN "Gray"
        ELSE IF len = pixelCount * 4 THEN "RGBA"
        ELSE "none"

\* new Uint8ClampedArray(n)
Zeros(n) == [i \in 1..n |-> 0]

\* decoded[j] stored into a Uint8ClampedArray: a read past the end is undefined, stored as 0
Byte(d, j) == IF j < Len(d) THEN d[j + 1] ELSE 0

\* for (let j = 0, k = 0; j < decoded.length && k < rgba.length; j += 3, k += 4)
RECURSIVE ExpandRGB(_, _, _, _)
ExpandRGB(d, rgba, j, k) ==
    IF j < Len(d) /\ k < Len(rgba)
    THEN ExpandRGB(d, [rgba EXCEPT ![k + 1] = Byte(d, j), ![k + 2] = Byte(d, j + 1),
                                   ![k + 3] = Byte(d, j + 2), ![k + 4] = 255],
                   j + 3, k + 4)
    ELSE rgba

\* for (let j = 0, k = 0; j < decoded.length && k < rgba.length; j++, k += 4)
RECURSIVE ExpandGray(_, _, _, _)
ExpandGray(d, rgba, j, k) ==
    IF j < Len(d) /\ k < Len(rgba)
    THEN ExpandGray(d, [rgba EXCEPT ![k + 1] = Byte(d, j), ![k + 2] = Byte(d, j),
                                    ![k + 3] = Byte(d, j), ![k + 4] = 255],
                    j + 1, k + 4)
    ELSE rgba

NoCanvas == [w |-> 0, h |-> 0, rgba |-> <<>>, layout |-> "none", src |-> "", by |-> ""]

\* the canvas after putImageData in the branch the layout selects
DrawDecoded(id, w, h, decoded, layout) ==
    [w |-> w, h |-> h, layout |-> layout, src |-> id, by |-> "walker",
     rgba |-> CASE layout = "RGB"  -> ExpandRGB(decoded, Zeros(w * h * 4), 0, 0)
                [] layout = "Gray" -> ExpandGray(decoded, Zeros(w * h * 4), 0, 0)
                [] OTHER           -> decoded]

----------------------------------------------------------------------------
(* The tool modal before any edit, and a page tool that is not running.    *)

\* useState<ProcessingOptions>({...}): the fields the compress and rotate tools read
InitialOptions ==
    [rotation |-> 90,
     compressionQuality |-> 50, compressionDpi |-> 150, compressionFullPage |-> TRUE,
     perPageRotation |-> FALSE,
     pageRotations |-> <<>>]

NoCall == [fn |-> "none"]
NoResult == [kind |-> "none"]

\* the modal as it is mounted: no file chosen, nothing processed
ModalIdle ==
    /\ files = <<>>
    /\ pageCount = 0
    /\ pageOrder = <<>>
    /\ loads = <<>>
    /\ isProcessing = FALSE
    /\ isComplete = FALSE
    /\ progress = 0
    /\ resultBlob = "null"
    /\ error = "null"
    /\ progressIntervalRef = "null"
    /\ mounted = TRUE

\* no page tool is open while extractPDFImages runs
ToolsIdle ==
    /\ ModalIdle
    /\ options = InitialOptions
    /\ selectedPages = <<>>
    /\ file = <<>>
    /\ call = NoCall
    /\ result = NoResult

----------------------------------------------------------------------------
(* Bookkeeping.                                                            *)

NoLog == [loaded |-> FALSE,     \* PDFDocument.load returned
          walkAborted |-> FALSE, \* a page-level exception ended Method 1 early
          accepted |-> 0,       \* Method 1 records that passed the subtype and dimension tests
          duplicates |-> 0,     \* records rejected by the deduplication set
          dropped |-> 0,        \* records fingerprinted and then not emitted
          emitted |-> <<>>,     \* one record per zip.file call, in call order
          harvestSteps |-> 0,   \* steps of Method 2 executed
          nullBlobs |-> 0,      \* toBlob calls that produced null
          smallBlobs |-> 0,     \* Method 2 blobs refused by the size test
          timeouts |-> 0,       \* operands abandoned after the 2000 ms race
          fetched |-> <<>>,     \* page numbers pdf.getPage resolved for, in call order
          cleaned |-> <<>>,     \* page numbers page.cleanup was called for, in call order
          lastKey |-> [page |-> 0, key |-> 0, src |-> "", verdict |-> "none"]]
                                \* the resource entry Method 1 handled last

Emission(n, page, ext, key, id, method, layout) ==
    [n |-> n, page |-> page, ext |-> ext, key |-> key, src |-> id,
     method |-> method, layout |-> layout]

----------------------------------------------------------------------------
(* Method 1: the pdf-lib walk.                                             *)

Init ==
    /\ doc \in Docs
    /\ pc = "load"
    /\ pageIdx = 0
    /\ keyIdx = 0
    /\ imageCount = 0
    /\ extractedHashes = {}
    /\ zip = {}
    /\ canvas = NoCanvas
    /\ pageNum = 1
    /\ ops = <<>>
    /\ opIdx = 0
    /\ processedImageNames = {}
    /\ outcome = "pending"
    /\ log = NoLog
    /\ ToolsIdle

\* await PDFDocument.load(buf); a rejection is caught by the outer catch of Method 1
Load ==
    /\ pc = "load"
    /\ \E ok \in BOOLEAN :
          IF ok THEN pc' = "walk" /\ log' = [log EXCEPT !.loaded = TRUE]
                ELSE pc' = "gate" /\ UNCHANGED log
    /\ UNCHANGED <<toolVars, doc, pageIdx, keyIdx, imageCount, extractedHashes, zip, canvas,
                   pageNum, ops, opIdx, processedImageNames, outcome>>

\* the tests a resource entry passes before it is fingerprinted
Acceptable(x) ==
    /\ x.stream
    /\ x.subtype = "/Image"
    /\ x.width # 0 /\ x.height # 0
    /\ x.width > 0 /\ x.height > 0

\* one iteration of: for (const key of keys) { try { ... } catch { } }
WalkKey ==
    /\ pc = "walk"
    /\ pageIdx < Len(doc)
    /\ keyIdx >= 1
    /\ keyIdx <= Len(doc[pageIdx + 1])
    /\ \E blobOk \in BOOLEAN :
        LET id     == doc[pageIdx + 1][keyIdx]
            x      == Objects[id]
            accept == Acceptable(x)
            key    == WalkerHashKey(x)
            fresh  == accept /\ ~Seen(extractedHashes, key)
            class  == FilterClass(x.filter)
            bpc    == BpcOf(x)
            layout == ChannelLayout(Len(x.decoded), x.width * x.height, x.colorSpace)
            draws  == /\ fresh /\ class = "flate" /\ x.decodes
                      /\ BitDepthSupported(bpc) /\ layout # "none"
            drawn  == DrawDecoded(id, x.width, x.height, x.decoded, layout)
            ext    == CASE fresh /\ class = "jpg" -> "jpg"
                        [] fresh /\ class = "bin" -> "bin"
                        [] draws /\ blobOk        -> "png"
                        [] OTHER                  -> ""
            data   == IF ext = "png" THEN PngData(drawn) ELSE StreamData(x.contents)
            verdict == CASE ~accept   -> "rejected"
                         [] ~fresh    -> "duplicate"
                         [] ext = ""  -> "dropped"
                         [] OTHER     -> "emitted"
        IN  /\ extractedHashes' = IF fresh THEN extractedHashes \cup {key}
                                           ELSE extractedHashes
            /\ canvas' = IF draws THEN drawn ELSE canvas
            /\ imageCount' = IF ext # "" THEN imageCount + 1 ELSE imageCount
            /\ zip' = IF ext # ""
                      THEN ZipFile(zip, EntryName(imageCount + 1, pageIdx + 1, ext), data)
                      ELSE zip
            /\ log' = [log EXCEPT
                  !.accepted   = IF accept THEN @ + 1 ELSE @,
                  !.duplicates = IF accept /\ ~fresh THEN @ + 1 ELSE @,
                  !.dropped    = IF fresh /\ ext = "" THEN @ + 1 ELSE @,
                  !.emitted    = IF ext # ""
                                 THEN Append(@, Emission(imageCount + 1, pageIdx + 1, ext, key,
                                                         id, "walker",
                                                         IF ext = "png" THEN layout ELSE "none"))
                                 ELSE @,
                  !.nullBlobs  = IF draws /\ ~blobOk THEN @ + 1 ELSE @,
                  !.lastKey    = [page |-> pageIdx + 1, key |-> keyIdx, src |-> id,
                                  verdict |-> verdict]]
    /\ keyIdx' = keyIdx + 1
    /\ UNCHANGED <<toolVars, doc, pc, pageIdx, pageNum, ops, opIdx, processedImageNames, outcome>>

\* const page = pages[pageIdx]; page.node.Resources(); resources.get(XObject);
\* xObjects.keys().  An exception here is outside the per-key try and is caught by
\* the outer catch, which ends Method 1.  A page without resources or without an
\* XObject dictionary is a page with no keys.
WalkOpenPage ==
    /\ pc = "walk"
    /\ pageIdx < Len(doc)
    /\ keyIdx = 0
    /\ \E ok \in BOOLEAN :
          IF ok THEN /\ keyIdx' = 1
                     /\ UNCHANGED <<pc, log>>
                ELSE /\ pc' = "gate"
                     /\ log' = [log EXCEPT !.walkAborted = TRUE]
                     /\ UNCHANGED keyIdx
    /\ UNCHANGED <<toolVars, doc, pageIdx, imageCount, extractedHashes, zip, canvas,
                   pageNum, ops, opIdx, processedImageNames, outcome>>

\* the keys of the page are exhausted (or the page has no XObject dictionary): pageIdx++
WalkNextPage ==
    /\ pc = "walk"
    /\ pageIdx < Len(doc)
    /\ keyIdx >= 1
    /\ keyIdx > Len(doc[pageIdx + 1])
    /\ pageIdx' = pageIdx + 1
    /\ keyIdx' = 0
    /\ UNCHANGED <<toolVars, doc, pc, imageCount, extractedHashes, zip, canvas,
                   pageNum, ops, opIdx, processedImageNames, outcome, log>>

\* pageIdx < pages.length fails: Method 1 is over
WalkEnd ==
    /\ pc = "walk"
    /\ pageIdx >= Len(doc)
    /\ pc' = "gate"
    /\ UNCHANGED <<toolVars, doc, pageIdx, keyIdx, imageCount, extractedHashes, zip, canvas,
                   pageNum, ops, opIdx, processedImageNames, outcome, log>>

----------------------------------------------------------------------------
(* Method 2: the PDF.js harvest.                                           *)

FallbackAlways(count) == TRUE
\* if (imageCount === 0) guarding Method 2
FallbackNeeded(count) == count = 0

\* Method 1 is over: either enter Method 2 with pdfjsLib.getDocument (a rejection
\* is not caught) or go to the final test
Gate ==
    /\ pc = "gate"
    /\ IF FallbackNeeded(imageCount)
       THEN \E ok \in BOOLEAN :
               /\ IF ok THEN pc' = "harvest" /\ outcome' = outcome
                        ELSE pc' = "done" /\ outcome' = "escaped"
               /\ log' = [log EXCEPT !.harvestSteps = @ + 1]
       ELSE pc' = "final" /\ UNCHANGED <<outcome, log>>
    /\ pageNum' = 1
    /\ opIdx' = 0
    /\ UNCHANGED <<toolVars, doc, pageIdx, keyIdx, imageCount, extractedHashes, zip, canvas,
                   ops, processedImageNames>>

\* ops.fnArray / ops.argsArray of a page: one operation per object, in order
PageOps(page) == [i \in 1..Len(page) |-> [fn |-> Objects[page[i]].paint.fn, name |-> page[i]]]

\* await pdf.getPage, await page.render(...).promise, await page.getOperatorList():
\* none of the three is inside a try, a rejection leaves extractPDFImages; after a
\* rejection of render or of getOperatorList the page has been fetched
HarvestPage ==
    /\ pc = "harvest"
    /\ opIdx = 0
    /\ pageNum <= Len(doc)
    /\ \E rejects \in {"none", "getPage", "render"} :
          /\ IF rejects = "none"
             THEN /\ ops' = PageOps(doc[pageNum])
                  /\ opIdx' = 1
                  /\ processedImageNames' = {}
                  /\ UNCHANGED <<pc, outcome>>
             ELSE /\ pc' = "done"
                  /\ outcome' = "escaped"
                  /\ UNCHANGED <<ops, opIdx, processedImageNames>>
          /\ log' = [log EXCEPT !.harvestSteps = @ + 1,
                                !.fetched = IF rejects = "getPage" THEN @ ELSE Append(@, pageNum)]
    /\ UNCHANGED <<toolVars, doc, pageIdx, keyIdx, imageCount, extractedHashes, zip, canvas, pageNum>>

\* fn === 85 || fn === 82 || fn === 88
PaintsImage(fn) == fn = 85 \/ fn = 82 \/ fn = 88

\* `pdfjs_${w}x${h}`
BitmapHashKey(w, h) == [ns |-> "pdfjs_", nums |-> <<w, h>>]

RawHashKeyAsBitmap(w, h, len) == BitmapHashKey(w, h)
\* `pdfjs_raw_${w}x${h}_${data.length}`
RawHashKey(w, h, len) == [ns |-> "pdfjs_raw_", nums |-> <<w, h, len>>]

\* the if / else if chain on dataArr.length
HarvestLayout(len, pixelCount) ==
    IF len = pixelCount * 4 THEN "RGBA"
    ELSE IF len = pixelCount * 3 THEN "RGB"
    ELSE IF len = pixelCount THEN "Gray"
    ELSE "none"

\* for (let j = 0, k = 0; j < dataArr.length; j += 3, k += 4)
RECURSIVE HarvestExpandRGB(_, _, _, _)
HarvestExpandRGB(d, rgba, j, k) ==
    IF j < Len(d)
    THEN HarvestExpandRGB(d, [rgba EXCEPT ![k + 1] = Byte(d, j), ![k + 2] = Byte(d, j + 1),
                                          ![k + 3] = Byte(d, j + 2), ![k + 4] = 255],
                          j + 3, k + 4)
    ELSE rgba

\* for (let j = 0, k = 0; j < dataArr.length; j++, k += 4)
RECURSIVE HarvestExpandGray(_, _, _, _)
HarvestExpandGray(d, rgba, j, k) ==
    IF j < Len(d)
    THEN HarvestExpandGray(d, [rgba EXCEPT ![k + 1] = Byte(d, j), ![k + 2] = Byte(d, j),
                                           ![k + 3] = Byte(d, j), ![k + 4] = 255],
                           j + 1, k + 4)
    ELSE rgba

\* imgCanvas after drawImage(bitmap) or putImageData
DrawHarvested(id, p, layout) ==
    [w |-> p.w, h |-> p.h, layout |-> layout, src |-> id, by |-> "harvester",
     rgba |-> CASE layout = "RGB"  -> HarvestExpandRGB(p.data, Zeros(p.w * p.h * 4), 0, 0)
                [] layout = "Gray" -> HarvestExpandGray(p.data, Zeros(p.w * p.h * 4), 0, 0)
                [] OTHER           -> p.data]

\* blob.size > 100
BlobLargeEnough(size) == size > MinBlobSize

ResolvedPageCacheOnly(cache, raceWon) == cache = "objs" \/ raceWon
\* objs.has(imgName), then commonObjs.has(imgName), then the race of
\* objs.get(imgName, resolve) against the 2000 ms timer, its rejection caught
Resolved(cache, raceWon) ==
    \/ cache = "objs"
    \/ cache = "commonObjs"
    \/ cache = "async" /\ raceWon

\* one iteration of: for (let i = 0; i < ops.fnArray.length; i++), where raceWon
\* tells whether the race gave the object and blobOk whether toBlob gave a blob
HarvestStep(raceWon, blobOk) ==
    /\ pc = "harvest"
    /\ opIdx >= 1
    /\ opIdx <= Len(ops)
    /\ LET op       == ops[opIdx]
            name     == op.name
            taken    == PaintsImage(op.fn) /\ name # "" /\ name \notin processedImageNames
            p        == Objects[name].paint
            resolved == Resolved(p.cache, raceWon)
            isBitmap == p.shape = "bitmap"
            isRaw    == p.shape = "raw" /\ p.w # 0 /\ p.h # 0
            key      == IF isBitmap THEN BitmapHashKey(p.w, p.h)
                                    ELSE RawHashKey(p.w, p.h, Len(p.data))
            reaches  == /\ taken /\ resolved
                        /\ \/ isBitmap /\ p.w > 0 /\ p.h > 0
                           \/ ~isBitmap /\ isRaw /\ p.typed
            fresh    == reaches /\ ~Seen(extractedHashes, key)
            layout   == IF isBitmap THEN "bitmap" ELSE HarvestLayout(Len(p.data), p.w * p.h)
            draws    == fresh /\ layout # "none"
            drawn    == DrawHarvested(name, p, layout)
            emits    == draws /\ blobOk /\ BlobLargeEnough(p.pngSize)
        IN  /\ processedImageNames' = IF taken THEN processedImageNames \cup {name}
                                               ELSE processedImageNames
            /\ extractedHashes' = IF fresh THEN extractedHashes \cup {key}
                                           ELSE extractedHashes
            /\ canvas' = IF draws THEN drawn ELSE canvas
            /\ imageCount' = IF emits THEN imageCount + 1 ELSE imageCount
            /\ zip' = IF emits
                      THEN ZipFile(zip, EntryName(imageCount + 1, pageNum, "png"), PngData(drawn))
                      ELSE zip
            /\ log' = [log EXCEPT
                  !.harvestSteps = @ + 1,
                  !.duplicates   = IF reaches /\ ~fresh THEN @ + 1 ELSE @,
                  !.dropped      = IF fresh /\ ~emits THEN @ + 1 ELSE @,
                  !.nullBlobs    = IF draws /\ ~blobOk THEN @ + 1 ELSE @,
                  !.smallBlobs   = IF draws /\ blobOk /\ ~emits THEN @ + 1 ELSE @,
                  !.timeouts     = IF taken /\ ~resolved THEN @ + 1 ELSE @,
                  !.emitted      = IF emits
                                   THEN Append(@, Emission(imageCount + 1, pageNum, "png", key,
                                                           name, "harvester", layout))
                                   ELSE @]
    /\ opIdx' = opIdx + 1
    /\ UNCHANGED <<doc, pc, pageIdx, keyIdx, pageNum, ops, outcome>>

HarvestOp ==
    /\ \E raceWon \in BOOLEAN, blobOk \in BOOLEAN : HarvestStep(raceWon, blobOk)
    /\ UNCHANGED toolVars

\* the operator loop of the page is over: page.cleanup?.(), pageNum++
HarvestCleanup ==
    /\ pc = "harvest"
    /\ opIdx >= 1
    /\ opIdx > Len(ops)
    /\ pageNum' = pageNum + 1
    /\ opIdx' = 0
    /\ log' = [log EXCEPT !.harvestSteps = @ + 1, !.cleaned = Append(@, pageNum)]
    /\ UNCHANGED <<toolVars, doc, pc, pageIdx, keyIdx, imageCount, extractedHashes, zip, canvas,
                   ops, processedImageNames, outcome>>

\* pageNum <= pdf.numPages fails: Method 2 is over
HarvestEnd ==
    /\ pc = "harvest"
    /\ opIdx = 0
    /\ pageNum > Len(doc)
    /\ pc' = "final"
    /\ UNCHANGED <<toolVars, doc, pageIdx, keyIdx, imageCount, extractedHashes, zip, canvas,
                   pageNum, ops, opIdx, processedImageNames, outcome, log>>

----------------------------------------------------------------------------
(* The end of extractPDFImages.                                            *)

ZeroYieldNever(count) == FALSE
\* if (imageCount === 0) guarding the throw
ZeroYield(count) == count = 0

\* throw new Error('No extractable embedded images ...') or return zip.generateAsync(...)
Final ==
    /\ pc = "final"
    /\ pc' = "done"
    /\ outcome' = IF ZeroYield(imageCount) THEN "StrategyExhaustion" ELSE "archive"
    /\ UNCHANGED <<toolVars, doc, pageIdx, keyIdx, imageCount, extractedHashes, zip, canvas,
                   pageNum, ops, opIdx, processedImageNames, log>>

Next ==
    \/ Load
    \/ WalkKey
    \/ WalkOpenPage
    \/ WalkNextPage
    \/ WalkEnd
    \/ Gate
    \/ HarvestPage
    \/ HarvestOp
    \/ HarvestCleanup
    \/ HarvestEnd
    \/ Final

Spec == Init /\ [][Next]_vars

----------------------------------------------------------------------------
(* Vocabulary of the properties.                                           *)

ObjectsOf(d) == {d[i][j] : <<i, j>> \in {<<a, b>> \in (1..Len(d)) \X (1..MaxObjs + 2) : b <= Len(d[a])}}

\* the run met no library failure and no toBlob yielding null
CleanRun == log.loaded /\ ~log.walkAborted /\ log.nullBlobs = 0 /\ outcome # "escaped"

ZipNames == {e.name : e \in zip}

EmittedBy(method) == {i \in 1..Len(log.emitted) : log.emitted[i].method = method}

\* the archive names follow the emissions, numbered upwards with pages never descending
NamedInOrder ==
    /\ ZipNames = {EntryName(log.emitted[i].n, log.emitted[i].page, log.emitted[i].ext)
                     : i \in 1..Len(log.emitted)}
    /\ \A i, j \in 1..Len(log.emitted) :
          i < j => /\ log.emitted[i].n < log.emitted[j].n
                   /\ log.emitted[i].page <= log.emitted[j].page

----------------------------------------------------------------------------
(* C1 *)

\* C1 (as stated): for the three-page document (page 1 two duplicate RGB images,
\* page 2 one grayscale image, page 3 nothing walkable but one paintable image)
\* the archive holds exactly 3 entries.
C1_ThreeEntries ==
    (doc = EndToEndDoc /\ pc = "done" /\ CleanRun)
        => (outcome = "archive" /\ Cardinality(zip) = 3)

\* C1 (amended): for that document the archive holds exactly 2 entries, the
\* deduplicated page-1 image and the page-2 image; Method 2 is not run, so the
\* page-3 image is not recovered.
C1_TwoEntries ==
    (doc = EndToEndDoc /\ pc = "done" /\ CleanRun)
        => /\ outcome = "archive"
           /\ ZipNames = {EntryName(1, 1, "png"), EntryName(2, 2, "png")}
           /\ log.duplicates = 1
           /\ log.harvestSteps = 0

C1_Witness ==
    /\ doc = EndToEndDoc /\ pc = "done" /\ CleanRun
    /\ Cardinality(zip) = 2
    /\ PaintsImage(Objects[doc[3][1]].paint.fn)
    /\ ~Acceptable(Objects[doc[3][1]])

----------------------------------------------------------------------------
(* C2 *)

\* an 8-bit RGB or Gray object Method 1 reaches and decodes
Walkable8(x) ==
    /\ Acceptable(x)
    /\ FilterClass(x.filter) = "flate" /\ x.decodes /\ BpcOf(x) = 8
    /\ ChannelLayout(Len(x.decoded), x.width * x.height, x.colorSpace) \in {"RGB", "Gray"}

----------------------------------------------------------------------------
(* C3 *)

\* C3: for a document with no walkable image object and at least one image painted
\* by a page's operator list, Method 2 alone yields a non-empty archive and
\* extractPDFImages does not throw.  (Stated for the runs in which no library call
\* fails, no toBlob yields null and no resolution times out.)
C3_FallbackYieldsArchive ==
    ( /\ pc = "done" /\ log.nullBlobs = 0 /\ log.timeouts = 0 /\ outcome # "escaped"
      /\ ~log.walkAborted
      /\ \A id \in ObjectsOf(doc) : ~Acceptable(Objects[id])
      /\ \E id \in ObjectsOf(doc) : PaintsImage(Objects[id].paint.fn) )
        => (outcome = "archive" /\ zip # {})

----------------------------------------------------------------------------
(* C4 *)

\* C4: when both strategies are over, extractPDFImages throws the zero-yield error
\* and returns no archive exactly if no image was emitted, and returns the archive
\* exactly if at least one was.
C4_ZeroYieldThrows ==
    (pc = "done" /\ outcome # "escaped")
        => /\ (Len(log.emitted) = 0 /\ zip = {}) <=> outcome = "StrategyExhaustion"
           /\ (Len(log.emitted) > 0 /\ zip # {}) <=> outcome = "archive"
           /\ imageCount = Len(log.emitted)

C4_Witness ==
    /\ pc = "done"
    /\ outcome = "StrategyExhaustion"
    /\ log.loaded
    /\ log.harvestSteps > 0
    /\ log.accepted > 0

----------------------------------------------------------------------------
(* C5 *)

\* C5: no failure of an object or of a page leaves extractPDFImages; the only error
\* its caller can get is the zero-yield error.
C5_OnlyZeroYieldEscapes == outcome \in {"pending", "archive", "StrategyExhaustion"}

----------------------------------------------------------------------------
(* C6 *)

\* C6 (as stated): Method 2 executes only when Method 1 accepted no record (image
\* subtype, positive width and height) in the whole document.
\* (Stated for the runs in which no toBlob yields null and no page of the walk throws.)
C6_NoHarvestAfterAccept ==
    (log.accepted > 0 /\ log.nullBlobs = 0 /\ ~log.walkAborted) => log.harvestSteps = 0

\* C6 (amended): Method 2 executes only when Method 1 emitted no archive entry;
\* whenever Method 1 emitted at least one entry, no step of Method 2 is executed.
C6_NoHarvestAfterEmit ==
    /\ log.harvestSteps > 0 => EmittedBy("walker") = {}
    /\ pc = "harvest" => EmittedBy("walker") = {}
    /\ EmittedBy("walker") # {} => EmittedBy("harvester") = {}

C6_Witness ==
    /\ pc = "done"
    /\ EmittedBy("walker") # {}
    /\ log.harvestSteps = 0
    /\ \E id \in ObjectsOf(doc) : PaintsImage(Objects[id].paint.fn) /\ ~Acceptable(Objects[id])

----------------------------------------------------------------------------
(* C7 *)

\* the object a step of Method 1 or Method 2 is about to handle
AtWalkKey ==
    pc = "walk" /\ pageIdx < Len(doc) /\ keyIdx >= 1 /\ keyIdx <= Len(doc[pageIdx + 1])
AtHarvestOp == pc = "harvest" /\ opIdx >= 1 /\ opIdx <= Len(ops)

\* C7: within one run the first record carrying a fingerprint passes the
\* deduplicator and its fingerprint is inserted; every later record with an equal
\* fingerprint is rejected and adds no archive entry; no two archive entries share
\* a fingerprint; the set only grows.
C7_Dedup ==
    [][ /\ extractedHashes \subseteq extractedHashes'
        /\ \A i, j \in 1..Len(log.emitted') :
              i # j => log.emitted'[i].key # log.emitted'[j].key
        /\ \A i \in 1..Len(log.emitted') : log.emitted'[i].key \in extractedHashes'
        /\ Cardinality(zip') = Len(log.emitted')
        /\ (AtWalkKey /\ Acceptable(Objects[doc[pageIdx + 1][keyIdx]])) =>
              LET key == WalkerHashKey(Objects[doc[pageIdx + 1][keyIdx]])
              IN  /\ key \in extractedHashes'
                  /\ key \in extractedHashes => UNCHANGED <<zip, imageCount, extractedHashes>>
        /\ (AtHarvestOp /\ zip' # zip) =>
              /\ Cardinality(extractedHashes') = Cardinality(extractedHashes) + 1
              /\ log.emitted'[Len(log.emitted')].key \in extractedHashes' \ extractedHashes
      ]_vars

C7_Witness ==
    /\ log.duplicates > 0
    /\ Len(log.emitted) > 0
    /\ pc = "done"

----------------------------------------------------------------------------
(* C8 *)

\* C8: in the decoder of Method 1, whenever the decoded length equals
\* width*height*k for k = 1 (Gray), 3 (RGB) or 4 (RGBA), the layout used is the one
\* of that k, whatever the color-space name hints.
C8_LengthMatchWins ==
    canvas.by = "walker" =>
        LET x          == Objects[canvas.src]
            len        == Len(x.decoded)
            pixelCount == x.width * x.height
        IN  /\ len = pixelCount     => canvas.layout = "Gray"
            /\ len = pixelCount * 3 => canvas.layout = "RGB"
            /\ len = pixelCount * 4 => canvas.layout = "RGBA"

----------------------------------------------------------------------------
(* C9 *)

\* C9: whenever a buffer is interpreted as RGB or Gray, every one of the
\* width*height pixels of the RGBA buffer drawn has alpha 255.
C9_OpaqueAlpha ==
    canvas.layout \in {"RGB", "Gray"} =>
        /\ Len(canvas.rgba) = canvas.w * canvas.h * 4
        /\ \A px \in 1..(canvas.w * canvas.h) : canvas.rgba[4 * px] = 255

----------------------------------------------------------------------------
(* C10 *)

\* the declared BitsPerComponent of the entry Method 1 is about to handle is a
\* number other than 8
DeclaresOtherDepth(x) == x.bpc # 0 /\ x.bpc # 8

\* the step skips the entry: nothing is emitted, nothing reaches the caller, and
\* the loop is at the next resource entry of the same page
SkipsEntry ==
    /\ zip' = zip /\ imageCount' = imageCount /\ log.emitted' = log.emitted
    /\ outcome' = "pending"
    /\ pc' = "walk" /\ pageIdx' = pageIdx /\ keyIdx' = keyIdx + 1

\* C10 (as stated): a walker record whose declared bitsPerComponent is anything
\* other than 8 is skipped.
C10_OtherDepthSkipped ==
    [][ (AtWalkKey /\ Acceptable(Objects[doc[pageIdx + 1][keyIdx]])
                   /\ DeclaresOtherDepth(Objects[doc[pageIdx + 1][keyIdx]]))
            => SkipsEntry ]_vars

\* C10 (amended): a walker record of the deflate branch (FlateDecode or no filter)
\* whose declared bitsPerComponent is a non-zero number other than 8 is skipped;
\* a record with a DCT filter or any other filter is emitted whatever its depth.
C10_OtherDepthSkippedInFlate ==
    [][ (AtWalkKey /\ Acceptable(Objects[doc[pageIdx + 1][keyIdx]])
                   /\ DeclaresOtherDepth(Objects[doc[pageIdx + 1][keyIdx]]))
            => IF FilterClass(Objects[doc[pageIdx + 1][keyIdx]].filter) = "flate"
               THEN SkipsEntry
               ELSE \/ WalkerHashKey(Objects[doc[pageIdx + 1][keyIdx]]) \in extractedHashes
                    \/ Len(log.emitted') = Len(log.emitted) + 1 ]_vars

C10_Witness ==
    /\ log.lastKey.src = "Deep16"
    /\ log.lastKey.verdict = "dropped"
    /\ log.lastKey.key = 1
    /\ pc = "walk" /\ keyIdx = 2 /\ Len(doc[pageIdx + 1]) = 2

----------------------------------------------------------------------------
(* C11 *)

\* the archive entry written for an emission
EntryOf(e) == CHOOSE z \in zip : z.name = EntryName(e.n, e.page, e.ext)

\* the entry of the emission holds the stream bytes of its object unchanged
StoredVerbatim(e) == EntryOf(e).data = [fmt |-> "stream", w |-> 0, h |-> 0,
                                        bytes |-> Objects[e.src].contents]

\* the entry of the emission holds a PNG of the object's width and height
StoredAsPng(e, w, h) ==
    /\ EntryOf(e).data.fmt = "png"
    /\ EntryOf(e).data.w = w /\ EntryOf(e).data.h = h

NamesDCT(f) == Includes(f, "DCTDecode") \/ Includes(f, "/DCT")
NamesFlate(f) == Includes(f, "FlateDecode") \/ Includes(f, "/Flat")

\* C11 (as stated): every emitted walker record is stored by its filter chain: a
\* chain naming DCT verbatim as .jpg, a chain naming deflate (and decoding to a
\* matching 8-bit buffer) re-encoded as .png, any other chain verbatim as .bin;
\* harvester output is always .png; no record carries another class's extension.
C11_ExtensionFollowsFilter ==
    \A i \in 1..Len(log.emitted) :
        LET e == log.emitted[i]
            x == Objects[e.src]
        IN  /\ \E z \in zip : z.name = EntryName(e.n, e.page, e.ext)
            /\ e.method = "harvester" => (e.ext = "png" /\ EntryOf(e).data.fmt = "png")
            /\ e.method = "walker" =>
                  CASE NamesDCT(x.filter)   -> e.ext = "jpg" /\ StoredVerbatim(e)
                    [] NamesFlate(x.filter) -> /\ e.ext = "png"
                                               /\ StoredAsPng(e, x.width, x.height)
                                               /\ BpcOf(x) = 8
                    [] OTHER                -> e.ext = "bin" /\ StoredVerbatim(e)

\* C11 (amended): as stated, except that a stream without any filter is handled
\* with the deflate class: it is decoded and, given a matching 8-bit buffer, stored
\* re-encoded as .png, never as .bin.
C11_ExtensionFollowsFilterOrNone ==
    \A i \in 1..Len(log.emitted) :
        LET e == log.emitted[i]
            x == Objects[e.src]
        IN  /\ \E z \in zip : z.name = EntryName(e.n, e.page, e.ext)
            /\ e.method = "harvester" => (e.ext = "png" /\ EntryOf(e).data.fmt = "png")
            /\ e.method = "walker" =>
                  CASE NamesDCT(x.filter)   -> e.ext = "jpg" /\ StoredVerbatim(e)
                    [] NamesFlate(x.filter) \/ x.filter = ""
                                            -> /\ e.ext = "png"
                                               /\ StoredAsPng(e, x.width, x.height)
                                               /\ BpcOf(x) = 8
                    [] OTHER                -> e.ext = "bin" /\ StoredVerbatim(e)

C11_Witness ==
    /\ pc = "done" /\ outcome = "archive"
    /\ \E i, j \in 1..Len(log.emitted) :
          /\ log.emitted[i].ext = "png" /\ log.emitted[i].src = "Plain"
          /\ log.emitted[j].ext = "bin" /\ log.emitted[j].src = "Fax"

----------------------------------------------------------------------------
(* C12 *)

\* <<a1, a2>> is at or before <<b1, b2>> in page-then-position order
AtOrBefore(a1, a2, b1, b2) == a1 < b1 \/ (a1 = b1 /\ a2 <= b2)

\* the keys of the walker records accepted on the pages before page p
KeysBeforePage(p) ==
    {WalkerHashKey(Objects[doc[a][b]]) :
        <<a, b>> \in {<<c, d>> \in (1..Len(doc)) \X (1..MaxObjs + 2) :
                        c < p /\ d <= Len(doc[c]) /\ Acceptable(Objects[doc[c][d]])}}

\* C12: both methods advance through the pages in ascending order and through the
\* entries of a page in encounter order; an entry is emitted under the page being
\* processed and the next sequence number, and only if no earlier page held a record
\* of the same fingerprint; so of two archive entries the one with the smaller n has
\* a page number less than or equal to the other's.
C12_EncounterOrder ==
    [][ /\ AtOrBefore(pageIdx, keyIdx, pageIdx', keyIdx')
        /\ AtOrBefore(pageNum, opIdx, pageNum', opIdx')
        /\ AtWalkKey => (pageIdx' = pageIdx /\ keyIdx' = keyIdx + 1)
        /\ AtHarvestOp => (pageNum' = pageNum /\ opIdx' = opIdx + 1)
        /\ log.emitted' # log.emitted =>
              LET e == log.emitted'[Len(log.emitted')]
              IN  /\ Len(log.emitted') = Len(log.emitted) + 1
                  /\ e.n = Len(log.emitted')
                  /\ e.page = IF pc = "walk" THEN pageIdx + 1 ELSE pageNum
                  /\ e.method = "walker" => e.key \notin KeysBeforePage(e.page)
        /\ ZipNames' = {EntryName(log.emitted'[i].n, log.emitted'[i].page, log.emitted'[i].ext)
                          : i \in 1..Len(log.emitted')}
        /\ \A a, b \in zip' : a.name.n < b.name.n => a.name.page <= b.name.page
        /\ \A a, b \in zip' : a.name.n = b.name.n => a = b
      ]_vars

C12_Witness ==
    /\ pc = "done" /\ outcome = "archive"
    /\ log.duplicates >= 1
    /\ \E a, b \in zip : a.name.n = 1 /\ b.name.n = 2 /\ a.name.page = 1 /\ b.name.page = 2

----------------------------------------------------------------------------
(* The page tools: compressPDF, rotatePDFPages, removePDFPages and the     *)
(* slicer of renderHtmlToPageImages, each started from the tool modal or   *)
(* called with arguments of its own.  extractPDFImages is not running.     *)

MaxFilePages == 2

ExtractIdle ==
    /\ doc = <<>>
    /\ pc = "idle"
    /\ pageIdx = 0
    /\ keyIdx = 0
    /\ imageCount = 0
    /\ extractedHashes = {}
    /\ zip = {}
    /\ canvas = NoCanvas
    /\ pageNum = 1
    /\ ops = <<>>
    /\ opIdx = 0
    /\ processedImageNames = {}
    /\ outcome = "pending"
    /\ log = NoLog

\* the pages a file can hold: the media box in points and the /Rotate entry
Pages ==
    { [width |-> 595, height |-> 842, rotation |-> 0],
      [width |-> 792, height |-> 612, rotation |-> 90] }

Files == UNION {SeqsOfLen(Pages, n) : n \in 1..MaxFilePages}

Max(a, b) == IF a > b THEN a ELSE b

----------------------------------------------------------------------------
(* Numbers: parseInt, and the fractions the code computes with.            *)

DigitOf(c) ==
    CASE c = "0" -> 0 [] c = "1" -> 1 [] c = "2" -> 2 [] c = "3" -> 3 [] c = "4" -> 4
      [] c = "5" -> 5 [] c = "6" -> 6 [] c = "7" -> 7 [] c = "8" -> 8 [] c = "9" -> 9
      [] OTHER -> -1

\* the digits of s from position i on, up to the first character that is no digit
RECURSIVE ParseDigits(_, _, _, _)
ParseDigits(s, i, acc, any) ==
    IF i <= Len(s) /\ DigitOf(SubSeq(s, i, i)) >= 0
    THEN ParseDigits(s, i + 1, acc * 10 + DigitOf(SubSeq(s, i, i)), TRUE)
    ELSE [nan |-> ~any, val |-> acc]

RECURSIVE SkipSpaces(_, _)
SkipSpaces(s, i) == IF i <= Len(s) /\ SubSeq(s, i, i) = " " THEN SkipSpaces(s, i + 1) ELSE i

\* parseInt(s): leading blanks, a sign, then decimal digits; NaN without a digit
ParseInt(s) ==
    LET i   == SkipSpaces(s, 1)
        neg == i <= Len(s) /\ SubSeq(s, i, i) = "-"
        pos == i <= Len(s) /\ SubSeq(s, i, i) = "+"
        d   == ParseDigits(s, IF neg \/ pos THEN i + 1 ELSE i, 0, FALSE)
    IN  [nan |-> d.nan, val |-> IF neg THEN 0 - d.val ELSE d.val]

\* parsed || dflt: NaN and 0 are falsy
ParsedOr(parsed, dflt) == IF parsed.nan \/ parsed.val = 0 THEN dflt ELSE parsed.val

\* n || dflt
NumberOr(n, dflt) == IF n = 0 THEN dflt ELSE n

FracLess(a, b) == a.num * b.den < b.num * a.den
FracEq(a, b) == a.num * b.den = b.num * a.den

\* Math.max on two fractions
FracMax(a, b) == IF FracLess(a, b) THEN b ELSE a

\* Math.round of a non-negative fraction
Round(f) == (2 * f.num + f.den) \div (2 * f.den)

----------------------------------------------------------------------------
(* The compress tool: the options of the modal.                            *)

\* <input type="range" min="10" max="100" step="5">: the values the slider reports
SliderValues ==
    {"10", "15", "20", "25", "30", "35", "40", "45", "50", "55",
     "60", "65", "70", "75", "80", "85", "90", "95", "100"}

\* what e.target.value of the DPI field can be
DpiTexts == {"", "abc", "0", "-5", "35", "36", "1e3", "0.5", " 300", "599", "600", "601", "99999"}

\* the DPI preset buttons
DpiPresets == {72, 96, 150, 200, 300}

ClampDpiNone(val) == val
\* Math.max(36, Math.min(600, val))
ClampDpi(val) == Max(36, Min(600, val))

Editing == call = NoCall

\* the Full Page and Images Only buttons
ClickCompressionMode ==
    /\ Editing
    /\ \E b \in BOOLEAN : options' = [options EXCEPT !.compressionFullPage = b]
    /\ UNCHANGED <<extractVars, modalVars, selectedPages, file, call, result>>

\* onChange of the quality slider
SlideQuality ==
    /\ Editing
    /\ \E v \in SliderValues :
          options' = [options EXCEPT !.compressionQuality = ParseInt(v).val]
    /\ UNCHANGED <<extractVars, modalVars, selectedPages, file, call, result>>

\* onChange of the DPI field
TypeDpi ==
    /\ Editing
    /\ \E v \in DpiTexts :
          LET val == ParsedOr(ParseInt(v), 150)
          IN  options' = [options EXCEPT !.compressionDpi = ClampDpi(val)]
    /\ UNCHANGED <<extractVars, modalVars, selectedPages, file, call, result>>

\* onClick of a DPI preset
ClickDpiPreset ==
    /\ Editing
    /\ \E v \in DpiPresets : options' = [options EXCEPT !.compressionDpi = v]
    /\ UNCHANGED <<extractVars, modalVars, selectedPages, file, call, result>>

----------------------------------------------------------------------------
(* compressPDF.                                                            *)

\* the default value of the parameter options
CompressDefaults == [imageQuality |-> 50, dpi |-> 150, fullPageMode |-> TRUE]

\* the options a caller other than the modal passes
DirectOptions ==
    [imageQuality : 1..100, dpi : {36, 72, 600}, fullPageMode : BOOLEAN]

\* the frame of compressPDF at the head of its page loop
CompressFrame(via, o) ==
    [fn |-> "compressPDF", via |-> via, options |-> o, at |-> "loop", i |-> 1,
     newPdf |-> <<>>, failed |-> 0]

\* handleProcess, case 'compress'
ProcessCompress ==
    /\ Editing
    /\ call' = CompressFrame("modal",
                  [imageQuality |-> NumberOr(options.compressionQuality, 50),
                   dpi          |-> NumberOr(options.compressionDpi, 150),
                   fullPageMode |-> options.compressionFullPage # FALSE])
    /\ UNCHANGED <<extractVars, modalVars, options, selectedPages, file, result>>

\* compressPDF(file) and compressPDF(file, options) called from elsewhere
CallCompress ==
    /\ Editing
    /\ options = InitialOptions
    /\ \/ call' = CompressFrame("direct", CompressDefaults)
       \/ \E o \in DirectOptions : call' = CompressFrame("direct", o)
    /\ UNCHANGED <<extractVars, modalVars, options, selectedPages, file, result>>

\* options.imageQuality / 100
Quality(o) == [num |-> o.imageQuality, den |-> 100]

\* options.dpi / 72
Scale(o) == [num |-> o.dpi, den |-> 72]

\* the 0.3 of Math.max(quality, 0.3)
QualityFloor == [num |-> 3, den |-> 10]

EncodeQualityNoFloor(o) == Quality(o)
\* the quality passed to canvas.toDataURL('image/jpeg', ...)
EncodeQuality(o) ==
    IF o.fullPageMode THEN Quality(o) ELSE FracMax(Quality(o), QualityFloor)

\* page.getViewport({ scale }): the media box turned by /Rotate and scaled
Viewport(page, scale) ==
    LET turned == page.rotation \in {90, 270}
        w      == IF turned THEN page.height ELSE page.width
        h      == IF turned THEN page.width ELSE page.height
    IN  [width  |-> [num |-> w * scale.num, den |-> scale.den],
         height |-> [num |-> h * scale.num, den |-> scale.den]]

OrigScaleDouble == [num |-> 2, den |-> 1]
\* the scale of page.getViewport({ scale: 1 })
OrigScale == [num |-> 1, den |-> 1]

\* the page added to newPdf for a source page: the JPEG of the canvas drawn over
\* a page of the size of the viewport at scale 1
CompressedPage(page, o) ==
    LET vp   == Viewport(page, Scale(o))
        orig == Viewport(page, OrigScale)
    IN  [width |-> orig.width, height |-> orig.height,
         img |-> [width |-> Max(1, Round(vp.width)), height |-> Max(1, Round(vp.height)),
                  quality |-> EncodeQuality(o)],
         drawn |-> [x |-> 0, y |-> 0, width |-> orig.width, height |-> orig.height]]

\* one iteration of: for (let i = 1; i <= srcPdf.numPages; i++); getPage, render,
\* toDataURL and embedJpg are not inside a try, a rejection leaves compressPDF
CompressPage ==
    /\ call.fn = "compressPDF" /\ call.at = "loop"
    /\ call.i <= Len(file)
    /\ \E ok \in BOOLEAN :
          IF ok
          THEN /\ call' = [call EXCEPT !.i = @ + 1,
                                       !.newPdf = Append(@, CompressedPage(file[call.i],
                                                                           call.options))]
               /\ UNCHANGED result
          ELSE /\ call' = [call EXCEPT !.at = "thrown", !.failed = call.i]
               /\ result' = [kind |-> "error"]
    /\ UNCHANGED <<extractVars, modalVars, options, selectedPages, file>>

\* the loop is over: newPdf.save, createPdfBlob
CompressSave ==
    /\ call.fn = "compressPDF" /\ call.at = "loop"
    /\ call.i > Len(file)
    /\ call' = [call EXCEPT !.at = "returned"]
    /\ result' = [kind |-> "pdf", pages |-> call.newPdf]
    /\ UNCHANGED <<extractVars, modalVars, options, selectedPages, file>>

CompressInit ==
    /\ ExtractIdle
    /\ ModalIdle
    /\ options = InitialOptions
    /\ selectedPages = <<>>
    /\ file \in Files
    /\ call = NoCall
    /\ result = NoResult

CompressNext ==
    \/ ClickCompressionMode
    \/ SlideQuality
    \/ TypeDpi
    \/ ClickDpiPreset
    \/ ProcessCompress
    \/ CallCompress
    \/ CompressPage
    \/ CompressSave

SpecCompress == CompressInit /\ [][CompressNext]_vars

----------------------------------------------------------------------------
(* C13 *)

----------------------------------------------------------------------------
(* C14 *)

\* the width and height PDF.js reports for a page at scale 1
UnitWidth(page) == IF page.rotation \in {90, 270} THEN page.height ELSE page.width
UnitHeight(page) == IF page.rotation \in {90, 270} THEN page.width ELSE page.height

\* C14: compressPDF builds one output page per source page, in source order; output
\* page k has the width and height of source page k's viewport at scale 1 and is
\* covered by its image, whatever the dpi; the dpi only sets the pixel size of the
\* image (the viewport at scale dpi/72, rounded, at least 1).
C14_PageGeometry ==
    call.fn = "compressPDF" =>
        /\ call.at = "loop" => Len(call.newPdf) = call.i - 1
        /\ call.at = "returned" =>
              (result.kind = "pdf" /\ result.pages = call.newPdf /\ Len(result.pages) = Len(file))
        /\ \A k \in 1..Len(call.newPdf) :
              LET np  == call.newPdf[k]
                  dpi == call.options.dpi
              IN  /\ np.width.num = UnitWidth(file[k]) * np.width.den
                  /\ np.height.num = UnitHeight(file[k]) * np.height.den
                  /\ np.drawn = [x |-> 0, y |-> 0, width |-> np.width, height |-> np.height]
                  /\ 2 * 72 * np.img.width - 72 <= 2 * UnitWidth(file[k]) * dpi
                  /\ 2 * UnitWidth(file[k]) * dpi < 2 * 72 * np.img.width + 72
                  /\ 2 * 72 * np.img.height - 72 <= 2 * UnitHeight(file[k]) * dpi
                  /\ 2 * UnitHeight(file[k]) * dpi < 2 * 72 * np.img.height + 72

C14_Witness ==
    /\ call.fn = "compressPDF" /\ call.at = "returned"
    /\ call.options.dpi = 600
    /\ Len(result.pages) = 2 /\ file[1] # file[2]
    /\ result.pages[1].img.width = 4958
    /\ result.pages[2].width = [num |-> 612, den |-> 1]

----------------------------------------------------------------------------
(* C15 *)

\* C15: when rendering or encoding fails for one page, compressPDF leaves that
\* page out and goes on: the call is not ended by the failure, its caller gets no
\* error, and the document it returns holds the pages before and after the failed one.
C15_FailedPageOmitted ==
    (call.fn = "compressPDF" /\ call.failed > 0) =>
        /\ call.at \in {"loop", "returned"}
        /\ result.kind # "error"
        /\ call.at = "returned" => Len(result.pages) = Len(file) - 1

----------------------------------------------------------------------------
(* C17 *)

\* C17: whatever the mode buttons, the quality slider, the DPI field and the DPI
\* presets were used for, the options handleProcess passes to compressPDF have
\* imageQuality in 1..100 and dpi in 36..600; without any edit they are quality 50,
\* dpi 150, full-page mode, which are also compressPDF's own defaults.
C17_OptionsInRange ==
    /\ NumberOr(options.compressionQuality, 50) \in 1..100
    /\ NumberOr(options.compressionDpi, 150) \in 36..600
    /\ (call.fn = "compressPDF" /\ call.via = "modal") =>
          /\ call.options.imageQuality \in 1..100
          /\ call.options.dpi \in 36..600
          /\ call.options.fullPageMode = options.compressionFullPage
          /\ options = InitialOptions =>
                call.options = [imageQuality |-> 50, dpi |-> 150, fullPageMode |-> TRUE]
    /\ (call.fn = "compressPDF" /\ call.via = "direct" /\ call.options = CompressDefaults) =>
          call.options = [imageQuality |-> 50, dpi |-> 150, fullPageMode |-> TRUE]

C17_Witness ==
    /\ call.fn = "compressPDF" /\ call.via = "modal" /\ call.at = "returned"
    /\ call.options = [imageQuality |-> 10, dpi |-> 600, fullPageMode |-> FALSE]
    /\ options.compressionDpi = 600

----------------------------------------------------------------------------
(* renderHtmlToPageImages: the capture of the laid-out container and its    *)
(* slicing into page images.  The height the layout engine reports for the *)
(* container is the input.                                                 *)

MaxContentHeight == 2300

A4_WIDTH_PX == 794
A4_HEIGHT_PX == 1123
CaptureScale == 2

TotalPagesFloor(contentHeight) == Max(1, contentHeight \div A4_HEIGHT_PX)
\* Math.max(1, Math.ceil(contentHeight / usableHeight))
TotalPages(contentHeight) == Max(1, (contentHeight + A4_HEIGHT_PX - 1) \div A4_HEIGHT_PX)

\* const contentHeight = container.scrollHeight; totalPages; pages = []
SlicerLayout ==
    /\ call.fn = "renderHtmlToPageImages" /\ call.at = "layout"
    /\ \E h \in 0..MaxContentHeight :
          call' = [call EXCEPT !.at = "capture", !.contentHeight = h,
                               !.totalPages = TotalPages(h)]
    /\ UNCHANGED <<extractVars, modalVars, options, selectedPages, file, result>>

\* html2canvas(container, { width, height: contentHeight, scale: 2 }): a canvas of
\* the requested size times the scale
SlicerCapture ==
    /\ call.fn = "renderHtmlToPageImages" /\ call.at = "capture"
    /\ call' = [call EXCEPT !.at = "loop",
                            !.fullCanvas = [width  |-> A4_WIDTH_PX * CaptureScale,
                                            height |-> call.contentHeight * CaptureScale]]
    /\ UNCHANGED <<extractVars, modalVars, options, selectedPages, file, result>>

SrcYUnscaled(page) == page * A4_HEIGHT_PX
\* const srcY = page * usableHeight * 2
SrcY(page) == page * A4_HEIGHT_PX * 2

\* the page image of one slice: a white canvas of two A4 sizes with srcH rows of the
\* capture, taken from row srcY on, drawn at its top
SliceImage(fullCanvas, page) ==
    LET srcY == SrcY(page)
        srcH == Min(A4_HEIGHT_PX * 2, fullCanvas.height - srcY)
    IN  [width |-> A4_WIDTH_PX * 2, height |-> A4_HEIGHT_PX * 2,
         srcY |-> srcY, dstY |-> 0,
         drawnRows |-> IF srcH > 0 THEN srcH ELSE 0,
         whiteRows |-> IF srcH > 0 THEN A4_HEIGHT_PX * 2 - srcH ELSE A4_HEIGHT_PX * 2]

\* one iteration of: for (let page = 0; page < totalPages; page++)
SlicePage ==
    /\ call.fn = "renderHtmlToPageImages" /\ call.at = "loop"
    /\ call.page < call.totalPages
    /\ call' = [call EXCEPT !.page = @ + 1,
                            !.pages = Append(@, SliceImage(call.fullCanvas, call.page))]
    /\ UNCHANGED <<extractVars, modalVars, options, selectedPages, file, result>>

\* the loop is over: return pages
SlicerReturn ==
    /\ call.fn = "renderHtmlToPageImages" /\ call.at = "loop"
    /\ call.page >= call.totalPages
    /\ call' = [call EXCEPT !.at = "returned"]
    /\ result' = [kind |-> "images", pages |-> call.pages]
    /\ UNCHANGED <<extractVars, modalVars, options, selectedPages, file>>

SlicerInit ==
    /\ ExtractIdle
    /\ ModalIdle
    /\ options = InitialOptions
    /\ selectedPages = <<>>
    /\ file = <<>>
    /\ call = [fn |-> "renderHtmlToPageImages", at |-> "layout", contentHeight |-> 0,
               totalPages |-> 0, fullCanvas |-> [width |-> 0, height |-> 0],
               page |-> 0, pages |-> <<>>]
    /\ result = NoResult

SlicerNext ==
    \/ SlicerLayout
    \/ SlicerCapture
    \/ SlicePage
    \/ SlicerReturn

SpecSlicer == SlicerInit /\ [][SlicerNext]_vars

----------------------------------------------------------------------------
(* C16 *)

\* the least k >= 1 with k * p >= h
PagesNeeded(h, p) == CHOOSE k \in 1..(h + 1) : k * p >= h /\ (k = 1 \/ (k - 1) * p < h)

\* C16: for content height H and page height P = 1123 the slicer returns exactly
\* max(1, ceil(H/P)) page images; every slice but the last is drawn in full, the
\* last one is drawn over H - P*(pageCount-1) rows of the layout (twice that many
\* rows of the capture, whose scale is 2) and the rest of it stays white.
C16_Pagination ==
    (call.fn = "renderHtmlToPageImages" /\ call.at = "returned") =>
        LET h == call.contentHeight
            n == PagesNeeded(h, 1123)
        IN  /\ Len(result.pages) = n
            /\ call.totalPages = n
            /\ \A k \in 1..(n - 1) :
                  result.pages[k].drawnRows = 2 * 1123 /\ result.pages[k].whiteRows = 0
            /\ result.pages[n].drawnRows = 2 * (h - 1123 * (n - 1))
            /\ result.pages[n].whiteRows = 2 * 1123 - 2 * (h - 1123 * (n - 1))
            /\ \A k \in 1..n : result.pages[k].srcY = 2 * 1123 * (k - 1)

C16_Witness ==
    /\ call.fn = "renderHtmlToPageImages" /\ call.at = "returned"
    /\ call.contentHeight = 1124
    /\ Len(result.pages) = 2
    /\ result.pages[2].drawnRows = 2
    /\ result.pages[2].whiteRows = 2244

----------------------------------------------------------------------------
(* The page selection of the modal, and removePDFPages.  A page of the     *)
(* loaded document is written as its index in the original file.           *)

MaxListLen == 3

\* prev.includes(i)
Selected(prev, i) == \E k \in 1..Len(prev) : prev[k] = i

\* prev.filter(p => p !== i)
RECURSIVE Without(_, _)
Without(prev, i) ==
    IF prev = <<>> THEN <<>>
    ELSE IF Head(prev) = i THEN Without(Tail(prev), i)
    ELSE <<Head(prev)>> \o Without(Tail(prev), i)

\* onClick of a page button: setSelectedPages(prev => prev.includes(i) ? ... : [...prev, i])
TogglePage ==
    /\ Editing
    /\ ~options.perPageRotation
    /\ \E i \in 0..(Len(file) - 1) :
          selectedPages' = IF Selected(selectedPages, i) THEN Without(selectedPages, i)
                                                         ELSE Append(selectedPages, i)
    /\ UNCHANGED <<extractVars, modalVars, options, file, call, result>>

\* insertion of x into a sequence sorted in descending order, after its equals
RECURSIVE InsertDesc(_, _)
InsertDesc(sorted, x) ==
    IF sorted = <<>> THEN <<x>>
    ELSE IF Head(sorted) >= x THEN <<Head(sorted)>> \o InsertDesc(Tail(sorted), x)
    ELSE <<x>> \o sorted

\* [...list].sort((a, b) => b - a)
RECURSIVE SortDesc(_)
SortDesc(list) ==
    IF list = <<>> THEN <<>>
    ELSE InsertDesc(SortDesc(SubSeq(list, 1, Len(list) - 1)), list[Len(list)])

\* pdf.removePage(idx)
RemoveAt(pdf, idx) == SubSeq(pdf, 1, idx) \o SubSeq(pdf, idx + 2, Len(pdf))

\* PDFDocument.load: the pages of the file, by index
Loaded(f) == [k \in 1..Len(f) |-> k - 1]

\* the frame of removePDFPages before its forEach
RemoveFrame(via, pagesToRemove) ==
    [fn |-> "removePDFPages", via |-> via, pagesToRemove |-> pagesToRemove,
     at |-> "forEach", sorted |-> SortDesc(pagesToRemove), k |-> 1, pdf |-> Loaded(file)]

\* the lists a caller other than the modal passes
RemoveLists == UNION {SeqsOfLen((0 - 1)..Len(file), n) : n \in 0..MaxListLen}

\* handleProcess, case 'remove-pages'
ProcessRemove ==
    /\ Editing
    /\ IF selectedPages = <<>>
       THEN /\ call' = [fn |-> "handleProcess", at |-> "thrown"]
            /\ result' = [kind |-> "error"]
       ELSE /\ call' = RemoveFrame("modal", selectedPages)
            /\ UNCHANGED result
    /\ UNCHANGED <<extractVars, modalVars, options, selectedPages, file>>

\* removePDFPages(file, pagesToRemove) called from elsewhere
CallRemove ==
    /\ Editing
    /\ selectedPages = <<>>
    /\ \E list \in RemoveLists : call' = RemoveFrame("direct", list)
    /\ UNCHANGED <<extractVars, modalVars, options, selectedPages, file, result>>

\* one call of the forEach callback
RemoveEach ==
    /\ call.fn = "removePDFPages" /\ call.at = "forEach"
    /\ call.k <= Len(call.sorted)
    /\ LET idx == call.sorted[call.k]
       IN  call' = [call EXCEPT !.k = @ + 1,
                                !.pdf = IF idx >= 0 /\ idx < Len(call.pdf)
                                        THEN RemoveAt(call.pdf, idx) ELSE @]
    /\ UNCHANGED <<extractVars, modalVars, options, selectedPages, file, result>>

\* pdf.save, createPdfBlob
RemoveSave ==
    /\ call.fn = "removePDFPages" /\ call.at = "forEach"
    /\ call.k > Len(call.sorted)
    /\ call' = [call EXCEPT !.at = "returned"]
    /\ result' = [kind |-> "pdf", pages |-> call.pdf]
    /\ UNCHANGED <<extractVars, modalVars, options, selectedPages, file>>

RemoveInit ==
    /\ ExtractIdle
    /\ ModalIdle
    /\ options = InitialOptions
    /\ selectedPages = <<>>
    /\ file \in Files
    /\ call = NoCall
    /\ result = NoResult

RemoveNext ==
    \/ TogglePage
    \/ ProcessRemove
    \/ CallRemove
    \/ RemoveEach
    \/ RemoveSave

SpecRemove == RemoveInit /\ [][RemoveNext]_vars

----------------------------------------------------------------------------
(* C18 *)

\* the pages of f whose index is not in the list, in their original order
PagesNotListed(f, list) ==
    LET Kept(i) == ~Selected(list, i)
    IN  SelectSeq(Loaded(f), Kept)

\* C18: removePDFPages returns exactly the original pages whose index is not in
\* pagesToRemove, in their original order, for every list (any order, indices out
\* of range or repeated): a page that is not listed is never removed.
C18_RemovesExactlyListed ==
    (call.fn = "removePDFPages" /\ call.at = "returned") =>
        result.pages = PagesNotListed(file, call.pagesToRemove)

----------------------------------------------------------------------------
(* The rotate tool and rotatePDFPages.  pageRotations is the object        *)
(* { pageIndex: angle }: a function on the indices an angle was chosen for. *)

\* the Same for All and Per Page buttons
ClickRotationMode ==
    /\ Editing
    /\ \E b \in BOOLEAN : options' = [options EXCEPT !.perPageRotation = b]
    /\ UNCHANGED <<extractVars, modalVars, selectedPages, file, call, result>>

\* the 90, 180 and 270 buttons of the same-for-all mode
ClickAngle ==
    /\ Editing
    /\ ~options.perPageRotation
    /\ \E angle \in {90, 180, 270} : options' = [options EXCEPT !.rotation = angle]
    /\ UNCHANGED <<extractVars, modalVars, selectedPages, file, call, result>>

\* { ...prev.pageRotations, [i]: angle }
WithPageAngle(pageRotations, i, angle) ==
    [k \in DOMAIN pageRotations \cup {i} |-> IF k = i THEN angle ELSE pageRotations[k]]

\* the None, 90, 180 and 270 buttons of a page row of the per-page mode
ClickPageAngle ==
    /\ Editing
    /\ options.perPageRotation
    /\ \E i \in 0..(Len(file) - 1), angle \in {0, 90, 180, 270} :
          options' = [options EXCEPT !.pageRotations = WithPageAngle(@, i, angle)]
    /\ UNCHANGED <<extractVars, modalVars, selectedPages, file, call, result>>

\* p.setRotation(degrees(p.getRotation().angle + angle)) on page idx, when idx is a page
Turn(pages, idx, angle) ==
    IF idx >= 0 /\ idx < Len(pages)
    THEN [pages EXCEPT ![idx + 1].rotation = @ + angle]
    ELSE pages

\* Object.entries(perPageRotations).forEach(...): every page with an entry other than 0
TurnEach(pages, perPageRotations) ==
    [k \in 1..Len(pages) |->
        IF (k - 1) \in DOMAIN perPageRotations /\ perPageRotations[k - 1] # 0
        THEN [pages[k] EXCEPT !.rotation = @ + perPageRotations[k - 1]]
        ELSE pages[k]]

\* toRotate.forEach(...): the listed pages in turn, all by the same angle
RECURSIVE TurnListed(_, _, _)
TurnListed(pages, toRotate, rotation) ==
    IF toRotate = <<>> THEN pages
    ELSE TurnListed(Turn(pages, Head(toRotate), rotation), Tail(toRotate), rotation)

\* an optional argument that was not passed
Undefined == [defined |-> FALSE]
Defined(v) == [defined |-> TRUE, value |-> v]

\* perPageRotations && Object.keys(perPageRotations).length > 0
PerPageGiven(perPageRotations) ==
    perPageRotations.defined /\ DOMAIN perPageRotations.value # {}

\* rotatePDFPages(file, rotation, pageIndices?, perPageRotations?): the pages saved
RotatePDFPages(f, rotation, pageIndices, perPageRotations) ==
    IF PerPageGiven(perPageRotations)
    THEN TurnEach(f, perPageRotations.value)
    ELSE TurnListed(f, IF pageIndices.defined THEN pageIndices.value ELSE Loaded(f), rotation)

\* handleProcess, case 'rotate'
ProcessRotate ==
    /\ Editing
    /\ LET perPage == options.perPageRotation /\ DOMAIN options.pageRotations # {}
           args    == IF perPage
                      THEN [rotation |-> 0, pageIndices |-> Undefined,
                            perPageRotations |-> Defined(options.pageRotations)]
                      ELSE [rotation |-> NumberOr(options.rotation, 90),
                            pageIndices |-> IF Len(selectedPages) > 0
                                            THEN Defined(selectedPages) ELSE Undefined,
                            perPageRotations |-> Undefined]
       IN  /\ call' = [fn |-> "rotatePDFPages", via |-> "modal", at |-> "returned",
                       args |-> args]
           /\ result' = [kind |-> "pdf",
                         pages |-> RotatePDFPages(file, args.rotation, args.pageIndices,
                                                  args.perPageRotations)]
    /\ UNCHANGED <<extractVars, modalVars, options, selectedPages, file>>

RotateInit ==
    /\ ExtractIdle
    /\ ModalIdle
    /\ options = InitialOptions
    /\ selectedPages = <<>>
    /\ file \in Files
    /\ call = NoCall
    /\ result = NoResult

RotateNext ==
    \/ ClickRotationMode
    \/ ClickAngle
    \/ ClickPageAngle
    \/ TogglePage
    \/ ProcessRotate

SpecRotate == RotateInit /\ [][RotateNext]_vars

----------------------------------------------------------------------------
(* C19 *)

\* the angle the per-page rows show for page i: the one chosen, None otherwise
ChosenAngle(i) ==
    IF i \in DOMAIN options.pageRotations THEN options.pageRotations[i] ELSE 0

\* C19: when Process runs in the per-page mode, every output page's rotation is
\* its input rotation plus the angle chosen for that page, None (chosen or never
\* changed) leaving the page as it was; the same-for-all angle and the pages
\* selected in the other mode have no effect.
C19_PerPageOnly ==
    (call.fn = "rotatePDFPages" /\ options.perPageRotation) =>
        /\ Len(result.pages) = Len(file)
        /\ \A k \in 1..Len(file) :
              result.pages[k].rotation = file[k].rotation + ChosenAngle(k - 1)

----------------------------------------------------------------------------
(* C20 *)

\* width, height, byte length and the hash of the sampled bytes of a record as
\* Method 1 reads it and as Method 2 reads it
WalkerFour(x) == <<x.width, x.height, Len(x.contents), SampleHash(x.contents)>>
HarvesterFour(x) == <<x.paint.w, x.paint.h, Len(x.paint.data), SampleHash(x.paint.data)>>

\* the objects at the positions of the document other than <<page, position>>
ObjectsElsewhere(page, position) ==
    {doc[a][b] : <<a, b>> \in {<<c, d>> \in (1..Len(doc)) \X (1..MaxObjs + 2) :
                                 d <= Len(doc[c]) /\ <<c, d>> # <<page, position>>}}

\* C20: a record, of the walker or of the harvester, is rejected as a duplicate
\* only if another record of the document agrees with it on width, height, byte
\* length and the hash of its first 100 bytes; records that differ in byte length
\* or in that hash are never duplicates merely because their dimensions match.
C20_FingerprintOfFour ==
    [][ log.duplicates' > log.duplicates =>
          IF AtWalkKey
          THEN \E id \in ObjectsElsewhere(pageIdx + 1, keyIdx) :
                  /\ Acceptable(Objects[id])
                  /\ WalkerFour(Objects[id]) = WalkerFour(Objects[doc[pageIdx + 1][keyIdx]])
          ELSE \E id \in ObjectsElsewhere(pageNum, opIdx) :
                  HarvesterFour(Objects[id]) = HarvesterFour(Objects[ops[opIdx].name])
      ]_vars

----------------------------------------------------------------------------
(* C21 *)

\* the string a key stands for: the literal prefix of its template, then the
\* interpolated numbers with the separators of the template
KeyText(key) ==
    LET n == key.nums
    IN  CASE key.ns = "" ->
               ToString(n[1]) \o "x" \o ToString(n[2]) \o "_" \o ToString(n[3])
                   \o "_" \o ToString(n[4])
          [] key.ns = "pdfjs_" ->
               "pdfjs_" \o ToString(n[1]) \o "x" \o ToString(n[2])
          [] key.ns = "pdfjs_raw_" ->
               "pdfjs_raw_" \o ToString(n[1]) \o "x" \o ToString(n[2]) \o "_" \o ToString(n[3])

\* the records of the document, other than the one at <<page, position>>, that
\* Method 2 reads in the given shape with the given width and height
SameShapeElsewhere(page, position, p) ==
    {id \in ObjectsElsewhere(page, position) :
        /\ Objects[id].paint.shape = p.shape
        /\ Objects[id].paint.w = p.w /\ Objects[id].paint.h = p.h
        /\ p.shape = "raw" => Len(Objects[id].paint.data) = Len(p.data)}

\* C21: the keys of walker records, of harvester bitmaps and of harvester pixel
\* buffers are pairwise different strings, whatever numbers they carry; a record is
\* rejected as a duplicate only on account of a record of its own provenance.
C21_DisjointNamespaces ==
    [][ /\ extractedHashes' # extractedHashes =>
              LET text == [k \in extractedHashes' |-> KeyText(k)]
              IN  /\ \A k1, k2 \in extractedHashes' :
                        /\ k1.ns # k2.ns => text[k1] # text[k2]
                        /\ text[k1] = text[k2] => k1 = k2
                  /\ \A k \in extractedHashes' :
                        /\ k.ns = "" => DigitOf(SubSeq(text[k], 1, 1)) >= 0
                        /\ k.ns = "pdfjs_" => /\ SubSeq(text[k], 1, 6) = "pdfjs_"
                                              /\ DigitOf(SubSeq(text[k], 7, 7)) >= 0
                        /\ k.ns = "pdfjs_raw_" => SubSeq(text[k], 1, 10) = "pdfjs_raw_"
        /\ log.duplicates' > log.duplicates =>
              IF AtWalkKey
              THEN \E id \in ObjectsElsewhere(pageIdx + 1, keyIdx) :
                      /\ Acceptable(Objects[id])
                      /\ WalkerHashKey(Objects[id]) = WalkerHashKey(Objects[doc[pageIdx + 1][keyIdx]])
              ELSE SameShapeElsewhere(pageNum, opIdx, Objects[ops[opIdx].name].paint) # {}
      ]_vars

C21_Witness ==
    /\ pc = "done"
    /\ \E k1, k2, k3 \in extractedHashes :
          k1.ns = "" /\ k2.ns = "pdfjs_" /\ k3.ns = "pdfjs_raw_"
    /\ Len(log.emitted) = 2

----------------------------------------------------------------------------
(* C22 *)

\* C22: an operand held by the page cache or by the shared cache is never waited
\* for; only an operand absent from both can lose the race against the timer, and
\* then it is abandoned: no entry, no fingerprint, no error, its name is marked
\* so that the page does not try it again, and the loop moves to the next paint
\* operation.  Every iteration of the operator loop can be taken and advances
\* the loop, so the harvest of a page ends whatever the resolutions do.
C22_TimeoutAbandons ==
    /\ [](AtHarvestOp => ENABLED HarvestOp)
    /\ [][ AtHarvestOp =>
             LET op   == ops[opIdx]
                 name == op.name
                 p    == Objects[name].paint
             IN  /\ opIdx' = opIdx + 1
                 /\ pc' = "harvest"
                 /\ outcome' = outcome
                 /\ ops' = ops
                 /\ p.cache \in {"objs", "commonObjs"} => log.timeouts' = log.timeouts
                 /\ log.timeouts' > log.timeouts =>
                       /\ p.cache = "async"
                       /\ PaintsImage(op.fn)
                       /\ name \notin processedImageNames
                       /\ name \in processedImageNames'
                       /\ zip' = zip
                       /\ imageCount' = imageCount
                       /\ extractedHashes' = extractedHashes
                       /\ log.emitted' = log.emitted
                 /\ name \in processedImageNames =>
                       /\ log.timeouts' = log.timeouts
                       /\ zip' = zip
                       /\ imageCount' = imageCount
                       /\ extractedHashes' = extractedHashes
                       /\ processedImageNames' = processedImageNames
       ]_vars

\* an operand was abandoned after the timer and the run still returned an
\* archive holding the object painted after it on the same page
C22_Witness ==
    /\ pc = "done"
    /\ outcome = "archive"
    /\ log.timeouts = 1
    /\ Len(log.emitted) = 1
    /\ \E i \in 1..Len(doc) : \E j, k \in 1..Len(doc[i]) :
          /\ j < k
          /\ Objects[doc[i][j]].paint.cache = "async"
          /\ log.emitted[1].src = doc[i][k]
          /\ log.emitted[1].page = i
          /\ log.emitted[1].method = "harvester"

----------------------------------------------------------------------------
(* C23 *)

\* the pages fetched and not released
Held == {log.fetched[i] : i \in 1..Len(log.fetched)} \ {log.cleaned[i] : i \in 1..Len(log.cleaned)}

\* C23: every page the harvest fetched is released exactly once: not while its
\* paint operations are being handled, before the next page is fetched, and on
\* every path, so that no page is held once the harvest is over and at most one
\* page is held at any time.
C23_ReleasedOnce ==
    /\ \A i \in 1..Len(log.fetched) : log.fetched[i] = i
    /\ Len(log.cleaned) <= Len(log.fetched)
    /\ \A i \in 1..Len(log.cleaned) : log.cleaned[i] = log.fetched[i]
    /\ Cardinality(Held) <= 1
    /\ AtHarvestOp => Held = {pageNum}
    /\ (pc = "harvest" /\ opIdx = 0) => Held = {}
    /\ pc \in {"final", "done"} => Held = {}

----------------------------------------------------------------------------
(* The tests of Method 1 on one resource entry, with the dictionary values  *)
(* spelled out.  Objects above carries integer widths and heights only;    *)
(* here /Width and /Height range over what a stream dictionary can hold.   *)

\* what dict.get(PDFName.of('Width')) can return: nothing, a PDFNumber (its
\* numberValue as a fraction and the text of its toString()), or a PDFName
DimValues ==
    { [kind |-> "missing", num |-> 0, den |-> 1, text |-> ""],
      [kind |-> "number", num |-> 0, den |-> 1, text |-> "0"],
      [kind |-> "number", num |-> 2, den |-> 1, text |-> "2"],
      [kind |-> "number", num |-> 0 - 2, den |-> 1, text |-> "-2"],
      [kind |-> "number", num |-> 3, den |-> 2, text |-> "1.5"],
      [kind |-> "name", num |-> 0, den |-> 1, text |-> "/W"] }

\* the resource entries: whether the object is a PDFRawStream, the text of its
\* /Subtype (empty when absent), its /Width, /Height and /Filter
Entries ==
    [stream : BOOLEAN, subtype : {"/Image", "/Form", ""}, width : DimValues,
     height : DimValues, filter : {"/DCTDecode", "/FlateDecode", "/JPXDecode"}]

\* (width as any).numberValue || parseInt(width.toString())
DimOf(v) ==
    IF v.kind = "number" /\ v.num # 0
    THEN [nan |-> FALSE, num |-> v.num, den |-> v.den]
    ELSE LET p == ParseInt(v.text) IN [nan |-> p.nan, num |-> p.val, den |-> 1]

\* !w: NaN and 0 are falsy
Falsy(d) == d.nan \/ d.num = 0

\* the negation of: if (!w || !h || w <= 0 || h <= 0) continue
DimsPass(w, h) == ~(Falsy(w) \/ Falsy(h) \/ w.num <= 0 \/ h.num <= 0)

\* the tests an entry passes before it is fingerprinted
EntryAccepted(e) ==
    /\ e.stream
    /\ e.subtype # "" /\ e.subtype = "/Image"
    /\ e.width.kind # "missing" /\ e.height.kind # "missing"
    /\ DimsPass(DimOf(e.width), DimOf(e.height))

\* if (!(xObj instanceof PDFRawStream)) continue ... if (!w || !h || ...) continue
EntryCheck ==
    /\ call.fn = "walkEntry"
    /\ call.at = "checks"
    /\ call' = [call EXCEPT !.at = IF EntryAccepted(call.entry) THEN "dedup" ELSE "next"]
    /\ UNCHANGED <<extractVars, modalVars, options, selectedPages, file, result>>

\* extractedHashes.add(hashKey): the set is empty before the first entry
EntryFingerprint ==
    /\ call.fn = "walkEntry"
    /\ call.at = "dedup"
    /\ call' = [call EXCEPT !.at = "filter"]
    /\ result' = [kind |-> "entry", fingerprinted |-> TRUE, ext |-> ""]
    /\ UNCHANGED <<extractVars, modalVars, options, selectedPages, file>>

\* the filter branches: the stream is stored as it is, or decoded and drawn,
\* where inflating, the channel layout and toBlob decide whether a PNG is stored
EntryStore ==
    /\ call.fn = "walkEntry"
    /\ call.at = "filter"
    /\ \E pngOk \in BOOLEAN :
          LET class == FilterClass(call.entry.filter)
          IN  result' = [result EXCEPT !.ext = CASE class = "jpg" -> "jpg"
                                                 [] class = "bin" -> "bin"
                                                 [] OTHER -> IF pngOk THEN "png" ELSE ""]
    /\ call' = [call EXCEPT !.at = "next"]
    /\ UNCHANGED <<extractVars, modalVars, options, selectedPages, file>>

EntryInit ==
    /\ ExtractIdle
    /\ ModalIdle
    /\ options = InitialOptions
    /\ selectedPages = <<>>
    /\ file = <<>>
    /\ \E e \in Entries : call = [fn |-> "walkEntry", entry |-> e, at |-> "checks"]
    /\ result = NoResult

EntryNext ==
    \/ EntryCheck
    \/ EntryFingerprint
    \/ EntryStore

SpecEntry == EntryInit /\ [][EntryNext]_vars

----------------------------------------------------------------------------
(* C24 *)

\* a dictionary value that is a number, above zero and whole
PositiveInteger(v) == v.kind = "number" /\ v.num > 0 /\ v.num % v.den = 0

\* C24: Method 1 inserts a fingerprint or stores an archive entry only for a
\* stream whose Subtype is /Image and whose Width and Height are both present
\* and positive integers.
C24_OnlyPositiveIntegers ==
    (call.fn = "walkEntry" /\ result # NoResult) =>
        /\ call.entry.stream
        /\ call.entry.subtype = "/Image"
        /\ PositiveInteger(call.entry.width)
        /\ PositiveInteger(call.entry.height)

----------------------------------------------------------------------------
(* C25 *)

\* the sequence numbers in the names of the archive
ZipNumbers == {e.name.n : e \in zip}

\* C25: at every point of a run imageCount is the number of entries of the
\* archive and the number of zip.file calls made; the sequence numbers of the
\* names are exactly 1..imageCount, the k-th call using k; no two entries share a
\* name or a sequence number, so no call replaced an earlier entry, whichever
\* method made it.
C25_CountMatchesEntries ==
    /\ imageCount = Cardinality(zip)
    /\ imageCount = Len(log.emitted)
    /\ ZipNumbers = 1..imageCount
    /\ \A i \in 1..Len(log.emitted) : log.emitted[i].n = i
    /\ \A e1, e2 \in zip : e1 # e2 => (e1.name # e2.name /\ e1.name.n # e2.name.n)
    /\ Cardinality(ZipNames) = imageCount

\* Method 2 stored two entries, on two pages
C25_Witness ==
    /\ pc = "done"
    /\ imageCount = 2
    /\ EmittedBy("harvester") = {1, 2}
    /\ ZipNames = {EntryName(1, 1, "png"), EntryName(2, 2, "png")}

----------------------------------------------------------------------------
(* C26 *)

RECURSIVE DrawnRowsUpTo(_, _)
\* the rows of the capture drawn by the first n slices, added up
DrawnRowsUpTo(pages, n) == IF n = 0 THEN 0 ELSE DrawnRowsUpTo(pages, n - 1) + pages[n].drawnRows

\* C26: with H the height of the capture and P the height of a page image, slice
\* k (counted from 0) draws the capture rows from k*P up to min((k+1)*P, H) at the
\* top of its page; every slice but the last draws P rows; each slice starts at
\* the row where the one before it stopped, the first at row 0, the last stops at
\* row H, and the drawn heights add up to H.
C26_SlicesTile ==
    (call.fn = "renderHtmlToPageImages" /\ call.at = "returned") =>
        LET H  == call.fullCanvas.height
            P  == 2246
            ps == result.pages
            n  == Len(ps)
        IN  /\ n >= 1
            /\ \A k \in 0..(n - 1) :
                  /\ ps[k + 1].height = P
                  /\ ps[k + 1].srcY = k * P
                  /\ ps[k + 1].srcY + ps[k + 1].drawnRows = Min((k + 1) * P, H)
                  /\ ps[k + 1].dstY = 0
                  /\ k < n - 1 => ps[k + 1].drawnRows = P
                  /\ k < n - 1 => ps[k + 2].srcY = ps[k + 1].srcY + ps[k + 1].drawnRows
            /\ ps[1].srcY = 0
            /\ ps[n].srcY + ps[n].drawnRows = H
            /\ DrawnRowsUpTo(ps, n) = H

\* three slices, the last one drawn over 108 rows of a capture of 4600
C26_Witness ==
    /\ call.fn = "renderHtmlToPageImages" /\ call.at = "returned"
    /\ call.fullCanvas.height = 4600
    /\ Len(result.pages) = 3
    /\ result.pages[3].srcY = 4492
    /\ result.pages[3].drawnRows = 108

----------------------------------------------------------------------------
(* Method 2 with the race of the asynchronous resolution against the timer *)
(* spelled out.  call.cur is the race the operator loop is waiting for,    *)
(* call.late the races it has left behind with an event still to come.     *)

NoRace == [name |-> "", page |-> 0, callback |-> "none", timer |-> "none", race |-> "none"]

\* documents whose objects are in the page cache or resolve asynchronously
RaceDocs == {d \in Docs : ObjectsOf(d) \subseteq {"Deep16", "Form", "RgbA"}}

SettleAlways(state, settlement) == settlement
\* a promise is settled once: resolve and reject on a settled promise do nothing
Settle(state, settlement) == IF state = "pending" THEN settlement ELSE state

\* if (!imgData && objs): the operand is taken and neither cache holds it
NeedsRace ==
    /\ AtHarvestOp
    /\ PaintsImage(ops[opIdx].fn)
    /\ ops[opIdx].name \notin processedImageNames
    /\ ~Resolved(Objects[ops[opIdx].name].paint.cache, FALSE)

\* the loop is not inside an await of a race whose promise is already settled
NoContinuationReady == call.cur = NoRace \/ call.cur.race = "pending"

\* Promise.race([new Promise(resolve => objs.get(imgName, resolve)),
\*               new Promise((_, reject) => setTimeout(() => reject(), 2000))])
RaceStart ==
    /\ NeedsRace
    /\ call.cur = NoRace
    /\ call' = [call EXCEPT !.cur = [name |-> ops[opIdx].name, page |-> pageNum,
                                     callback |-> "pending", timer |-> "pending",
                                     race |-> "pending"]]
    /\ UNCHANGED <<extractVars, modalVars, options, selectedPages, file, result>>

\* the races with an event still to come
OpenRaces == {r \in call.late \cup {call.cur} : r.callback = "pending" \/ r.timer = "pending"}

\* r in its place, replaced by r2
WithRace(r, r2) ==
    IF r = call.cur THEN [call EXCEPT !.cur = r2]
                    ELSE [call EXCEPT !.late = (@ \ {r}) \cup {r2}]

\* PDF.js calls resolve: the first promise is fulfilled and the race with it
CallbackFires ==
    /\ call.fn = "extractPDFImages"
    /\ NoContinuationReady
    /\ \E r \in OpenRaces :
          /\ r.callback = "pending"
          /\ call' = WithRace(r, [r EXCEPT !.callback = "fired",
                                           !.race = Settle(r.race, "fulfilled")])
    /\ UNCHANGED <<extractVars, modalVars, options, selectedPages, file, result>>

\* the 2000 ms timer calls reject: the second promise is rejected and the race with it
TimerFires ==
    /\ call.fn = "extractPDFImages"
    /\ NoContinuationReady
    /\ \E r \in OpenRaces :
          /\ r.timer = "pending"
          /\ call' = WithRace(r, [r EXCEPT !.timer = "fired",
                                           !.race = Settle(r.race, "rejected")])
    /\ UNCHANGED <<extractVars, modalVars, options, selectedPages, file, result>>

\* the await returns the object or throws into catch { /* timeout */ }; the rest
\* of the iteration follows, and the race is left behind
RaceResume ==
    /\ call.fn = "extractPDFImages"
    /\ call.cur # NoRace
    /\ call.cur.race # "pending"
    /\ \E blobOk \in BOOLEAN : HarvestStep(call.cur.race = "fulfilled", blobOk)
    /\ call' = [call EXCEPT !.cur = NoRace, !.late = @ \cup {call.cur}]
    /\ UNCHANGED <<modalVars, options, selectedPages, file, result>>

\* an iteration that does not reach the race
RaceFreeOp ==
    /\ call.fn = "extractPDFImages"
    /\ call.cur = NoRace
    /\ ~NeedsRace
    /\ \E blobOk \in BOOLEAN : HarvestStep(FALSE, blobOk)
    /\ UNCHANGED toolVars

\* Method 2 starts on a document Method 1 could not load
RaceInit ==
    /\ doc \in RaceDocs
    /\ pc = "harvest"
    /\ pageIdx = 0
    /\ keyIdx = 0
    /\ imageCount = 0
    /\ extractedHashes = {}
    /\ zip = {}
    /\ canvas = NoCanvas
    /\ pageNum = 1
    /\ ops = <<>>
    /\ opIdx = 0
    /\ processedImageNames = {}
    /\ outcome = "pending"
    /\ log = [NoLog EXCEPT !.harvestSteps = 1]
    /\ options = InitialOptions
    /\ selectedPages = <<>>
    /\ file = <<>>
    /\ call = [fn |-> "extractPDFImages", cur |-> NoRace, late |-> {}]
    /\ ModalIdle
    /\ result = NoResult

RaceNext ==
    \/ HarvestPage
    \/ RaceFreeOp
    \/ RaceStart
    \/ CallbackFires
    \/ TimerFires
    \/ RaceResume
    \/ HarvestCleanup
    \/ HarvestEnd
    \/ Final

SpecRace == RaceInit /\ [][RaceNext]_vars

----------------------------------------------------------------------------
(* C27 *)

\* an event of a race the loop has left behind is delivered in this step
LateEvent == call.fn = "extractPDFImages" /\ call.late' # call.late /\ call.cur' = call.cur

\* C27: the callback of a resolution arriving after the timer has fired, and the
\* timer firing after the resolution has won, change nothing: the settlement of
\* the race stays what it was, no entry is added, imageCount, the fingerprint set
\* and the names tried on the page stay as they are, and the position of the
\* loops over operands and pages is untouched.
C27_LateEventInert ==
    [][ LateEvent =>
          /\ \A r \in call.late : \E r2 \in call.late' :
                r2.name = r.name /\ r2.page = r.page /\ r2.race = r.race
          /\ Cardinality(call.late') = Cardinality(call.late)
          /\ UNCHANGED <<zip, imageCount, extractedHashes, processedImageNames, canvas,
                         pc, pageNum, ops, opIdx, outcome, log>>
      ]_vars

\* both orders happened: on page 1 the callback came after the timer and the
\* object was abandoned, on page 2 the timer came after the callback and the
\* object was stored
C27_Witness ==
    /\ call.fn = "extractPDFImages"
    /\ pc = "done"
    /\ outcome = "archive"
    /\ \E r1, r2 \in call.late :
          /\ r1.page = 1 /\ r1.race = "rejected" /\ r1.callback = "fired"
          /\ r2.page = 2 /\ r2.race = "fulfilled" /\ r2.timer = "fired"
    /\ log.timeouts = 1
    /\ imageCount = 1

----------------------------------------------------------------------------
(* The tool modal opened on remove-pages, a tool that takes a single file: *)
(* choosing and removing the file, the loadPdfInfo effect, the page        *)
(* buttons and the start of Process.                                       *)

MaxLoads == 2

\* the files the drop zone accepts: PDFs of some pages, by their MIME type or, with
\* another type, by their name ending in .pdf; readable tells whether getPDFInfo
\* resolves for the file
ModalFiles == [pages : 1..MaxFilePages, type : {"application/pdf", ""}, readable : BOOLEAN]

\* Array.from({ length: n }, (_, i) => i)
IndexList(n) == [k \in 1..n |-> k - 1]

\* the loadPdfInfo effect after a render with new files: one more getPDFInfo call
\* when files[0] is typed application/pdf, nothing otherwise
LoadsAfter(newFiles) ==
    IF Len(newFiles) > 0 /\ newFiles[1].type = "application/pdf"
    THEN Append(loads, newFiles[1])
    ELSE loads

\* handleDrop or handleFileInput with a valid file: setFiles([file]); setError(null)
ChooseFile ==
    /\ mounted
    /\ ~isComplete
    /\ Len(loads) < MaxLoads
    /\ \E f \in ModalFiles :
          /\ files' = <<f>>
          /\ loads' = LoadsAfter(<<f>>)
    /\ error' = "null"
    /\ UNCHANGED <<extractVars, options, selectedPages, file, call, result, pageCount,
                   pageOrder, isProcessing, isComplete, progress, resultBlob,
                   progressIntervalRef, mounted>>

\* removeFile(0): setFiles(prev => prev.filter(...)); setPageCount(0);
\* setSelectedPages([]); setPageOrder([])
RemoveFile ==
    /\ mounted
    /\ ~isComplete
    /\ Len(files) > 0
    /\ files' = <<>>
    /\ pageCount' = 0
    /\ selectedPages' = <<>>
    /\ pageOrder' = <<>>
    /\ loads' = LoadsAfter(<<>>)
    /\ UNCHANGED <<extractVars, options, file, call, result, isProcessing, isComplete,
                   progress, resultBlob, error, progressIntervalRef, mounted>>

\* s without its k-th element
Dropped(s, k) == SubSeq(s, 1, k - 1) \o SubSeq(s, k + 1, Len(s))

\* a getPDFInfo call settles: setPageCount(info.pageCount); setPageOrder(...), or
\* the catch that only logs
LoadSettles ==
    /\ mounted
    /\ \E k \in 1..Len(loads) :
          /\ loads' = Dropped(loads, k)
          /\ IF loads[k].readable
             THEN /\ pageCount' = loads[k].pages
                  /\ pageOrder' = IndexList(loads[k].pages)
             ELSE UNCHANGED <<pageCount, pageOrder>>
    /\ UNCHANGED <<extractVars, options, selectedPages, file, call, result, files,
                   isProcessing, isComplete, progress, resultBlob, error,
                   progressIntervalRef, mounted>>

\* onClick of page button i of the pageCount buttons shown
ClickPageButton ==
    /\ mounted
    /\ ~isComplete
    /\ pageCount > 0
    /\ \E i \in 0..(pageCount - 1) :
          selectedPages' = IF Selected(selectedPages, i) THEN Without(selectedPages, i)
                                                         ELSE Append(selectedPages, i)
    /\ UNCHANGED <<extractVars, modalVars, options, file, call, result>>

\* handleProcess up to its first await, the button being enabled (canProcess() and
\* not isProcessing).  With no page selected the throw, the catch and the finally
\* follow at once; otherwise removePDFPages(files[0], selectedPages) is awaited.
ClickProcess ==
    /\ mounted
    /\ ~isComplete
    /\ Len(files) > 0
    /\ ~isProcessing
    /\ progress' = 0
    /\ IF Len(selectedPages) = 0
       THEN /\ error' = "Please select pages to remove"
            /\ isProcessing' = FALSE
            /\ progressIntervalRef' = "null"
            /\ UNCHANGED call
       ELSE /\ error' = "null"
            /\ isProcessing' = TRUE
            /\ progressIntervalRef' = "active"
            /\ call' = [fn |-> "handleProcess", file |-> files[1],
                        selectedPages |-> selectedPages]
    /\ UNCHANGED <<extractVars, options, selectedPages, file, result, files, pageCount,
                   pageOrder, loads, isComplete, resultBlob, mounted>>

SelectInit ==
    /\ ExtractIdle
    /\ ModalIdle
    /\ options = InitialOptions
    /\ selectedPages = <<>>
    /\ file = <<>>
    /\ call = NoCall
    /\ result = NoResult

SelectNext ==
    \/ ChooseFile
    \/ RemoveFile
    \/ LoadSettles
    \/ ClickPageButton
    \/ ClickProcess

SpecSelect == SelectInit /\ [][SelectNext]_vars

----------------------------------------------------------------------------
(* C28 *)

\* C28: once no getPDFInfo call is pending, pageCount and pageOrder are those of
\* the file at files[0], a readable PDF, and 0 and empty when no file is chosen,
\* whatever the order of choices, removals and load completions was.
C28_InfoOfCurrentFile ==
    (loads = <<>> /\ (Len(files) > 0 => (files[1].readable /\ files[1].type = "application/pdf")))
        => IF Len(files) = 0
           THEN pageCount = 0 /\ pageOrder = <<>>
           ELSE pageCount = files[1].pages /\ pageOrder = IndexList(files[1].pages)

----------------------------------------------------------------------------
(* C29 *)

\* C29: when Process hands the selection to the page tool, every index in it is
\* an index of a page of the file handed over with it, and none occurs twice.
C29_SelectionValid ==
    call.fn = "handleProcess" =>
        /\ \A k \in 1..Len(call.selectedPages) :
              call.selectedPages[k] >= 0 /\ call.selectedPages[k] < call.file.pages
        /\ \A j, k \in 1..Len(call.selectedPages) :
              j # k => call.selectedPages[j] # call.selectedPages[k]

----------------------------------------------------------------------------
(* The run of Process in the modal: the progress timer, the settlement of  *)
(* the awaited operation, and the unmounting of the modal.  The operation  *)
(* itself is a page tool; here it resolves with a blob or rejects.  The    *)
(* reference progressIntervalRef.current is "null", "active" for a running *)
(* timer, "cleared" for the id of a timer that clearInterval has stopped.  *)

TickProgressUncapped(prev) == prev + 15
\* setProgress(prev => Math.min(prev + 15, 90))
TickProgress(prev) == Min(prev + 15, 90)

\* the callback of setInterval(..., 150)
Tick ==
    /\ mounted
    /\ progressIntervalRef = "active"
    /\ progress' = TickProgress(progress)
    /\ UNCHANGED <<extractVars, options, selectedPages, file, call, result, files,
                   pageCount, pageOrder, loads, isProcessing, isComplete, resultBlob,
                   error, progressIntervalRef, mounted>>

\* the awaited operation resolves: clearInterval, setProgress(100), setResultBlob,
\* setIsComplete(true), and the finally block; state setters of an unmounted
\* modal do nothing
OperationResolves ==
    /\ call.fn = "handleProcess"
    /\ call' = NoCall
    /\ result' = [kind |-> "resolved", progressBefore |-> progress]
    /\ progressIntervalRef' = "null"
    /\ IF mounted
       THEN /\ progress' = 100
            /\ resultBlob' = "blob"
            /\ isComplete' = TRUE
            /\ isProcessing' = FALSE
       ELSE UNCHANGED <<progress, resultBlob, isComplete, isProcessing>>
    /\ UNCHANGED <<extractVars, options, selectedPages, file, files, pageCount, pageOrder,
                   loads, error, mounted>>

\* the awaited operation rejects: the catch sets the error, the finally block
\* clears the timer and sets isProcessing to false
OperationRejects ==
    /\ call.fn = "handleProcess"
    /\ call' = NoCall
    /\ result' = [kind |-> "rejected", progressBefore |-> progress]
    /\ progressIntervalRef' = "null"
    /\ IF mounted
       THEN /\ error' = "An error occurred"
            /\ isProcessing' = FALSE
       ELSE UNCHANGED <<error, isProcessing>>
    /\ UNCHANGED <<extractVars, options, selectedPages, file, files, pageCount, pageOrder,
                   loads, isComplete, progress, resultBlob, mounted>>

\* the cleanup of the effect with no dependencies: clearInterval of a timer still
\* referenced; the reference is left as it is
Unmount ==
    /\ mounted
    /\ mounted' = FALSE
    /\ progressIntervalRef' = IF progressIntervalRef = "active" THEN "cleared"
                                                                ELSE progressIntervalRef
    /\ UNCHANGED <<extractVars, options, selectedPages, file, call, result, files,
                   pageCount, pageOrder, loads, isProcessing, isComplete, progress,
                   resultBlob, error>>

\* a readable PDF has been chosen and its getPDFInfo call has resolved
ProcessInit ==
    /\ ExtractIdle
    /\ options = InitialOptions
    /\ selectedPages = <<>>
    /\ file = <<>>
    /\ call = NoCall
    /\ result = NoResult
    /\ \E f \in ModalFiles :
          /\ f.readable /\ f.type = "application/pdf"
          /\ files = <<f>>
          /\ pageCount = f.pages
          /\ pageOrder = IndexList(f.pages)
    /\ loads = <<>>
    /\ isProcessing = FALSE
    /\ isComplete = FALSE
    /\ progress = 0
    /\ resultBlob = "null"
    /\ error = "null"
    /\ progressIntervalRef = "null"
    /\ mounted = TRUE

ProcessNext ==
    \/ ClickPageButton
    \/ ClickProcess
    \/ Tick
    \/ OperationResolves
    \/ OperationRejects
    \/ Unmount

SpecProcess == ProcessInit /\ [][ProcessNext]_vars

----------------------------------------------------------------------------
(* C30 *)

\* C30: in the mounted modal, while the operation is pending progress stays at
\* or below 90 and the timer runs only then; progress is 100 only after the
\* operation resolved and then stays 100; once the operation has settled
\* isProcessing is false and no timer is active; isComplete holds only with a
\* result blob stored.
C30_ProgressProtocol ==
    /\ [](mounted =>
            /\ isProcessing => progress <= 90
            /\ progress = 100 => result.kind = "resolved"
            /\ call.fn # "handleProcess" => (~isProcessing /\ progressIntervalRef = "null")
            /\ isComplete => resultBlob # "null")
    /\ [](progressIntervalRef = "active" => (mounted /\ call.fn = "handleProcess"))
    /\ [][ /\ progress = 100 => progress' = 100
           /\ (progress' # progress /\ call' = call /\ call.fn = "handleProcess") =>
                  (progress' <= 90 /\ progress' > progress)
           /\ progress' = 100 => (progress = 100 \/ result'.kind = "resolved")
       ]_vars

\* the timer took progress to its cap before the operation resolved
C30_Witness ==
    /\ mounted
    /\ result.kind = "resolved"
    /\ result.progressBefore = 90
    /\ progress = 100
    /\ isComplete
    /\ resultBlob = "blob"
    /\ ~isProcessing
    /\ progressIntervalRef = "null"

====
